---------------------------- MODULE Spec2Model ----------------------------
(***************************************************************************)
(* GanhosPro: the aggregation and derived-metrics code of the views        *)
(* (CalculatorView, HistoryView, GeneralReport, DayOfWeekAnalysis,         *)
(* PerformanceOptimizer) over the entries of useGanhosProStore.            *)
(*                                                                         *)
(* Conventions of the model                                                *)
(*  - money is in centavos, distances in km, durations in hours, all       *)
(*    integers; a quotient n / d is kept as the pair <<n, d>>;             *)
(*  - a Date is its time value in whole seconds since 1970-01-01T00:00Z    *)
(*    (every instant the code compares is a whole second except the        *)
(*    23:59:59.999 end-of-day boundary, which is kept as 23:59:59); the    *)
(*    invalid Date is NaN;                                                 *)
(*  - a date string "YYYY-MM-DD" is the tuple <<YYYY, MM, DD>>; a string   *)
(*    that does not parse (month 00, day 00: "0000-00-00") is a tuple      *)
(*    whose fields are out of range;                                       *)
(*  - a key string is the sequence of its characters;                      *)
(*  - the value of a number input of the calculator view is the empty      *)
(*    sequence ('') or the one-element sequence of the number typed; the   *)
(*    texts of the settings are the sequences of their characters;         *)
(*  - the numbers of the general report and of the settings are binary64:  *)
(*    a sign, a significand of 53 binary digits and an exponent, the two   *)
(*    zeros, the two infinities and NaN; the store keeps the amounts the   *)
(*    decimals of two places they were written with stand for;             *)
(*  - a derived rate is a record: a number num / den, null, NaN or         *)
(*    Infinity;                                                            *)
(*  - tz is the system timezone, minutes east of UTC, fixed for a run.     *)
(***************************************************************************)
EXTENDS Integers, Sequences, FiniteSets, TLC

VARIABLES
    tz,                 \* system timezone offset (minutes east of UTC)
    now,                \* the system clock, read by new Date()
    entries,            \* useGanhosProStore: entries
    vehicleCostPerKm,   \* useGanhosProStore: vehicleCostPerKm (centavos / km)
    prevEntries,        \* useGanhosProStore: the prevEntries handed to the last setEntries updater
    lastCall,           \* useGanhosProStore: the last store operation called and its argument
    currentView,        \* App: currentView
    regrouped,          \* GeneralReport: the totals of the entries and of a permutation of them
    serviceWorker,      \* sw.js: the caches and the fetch events being answered
    weeks,              \* a Date, and the Dates around it that its week window and its
                        \* week key select
    toast,              \* App: toast ({ message, show })
    backup,             \* PremiumView: the backup file last exported, and the store it was
                        \* exported from
    importAttempt,      \* PremiumView: the files being read by handleImportJSON and what
                        \* the last read ended with
    earnings,           \* CalculatorView: earnings (input string)
    kms,                \* CalculatorView: kms (input string)
    hours,              \* CalculatorView: hours (input string)
    costs,              \* CalculatorView: costs (input string)
    dateInput,          \* CalculatorView: date (input string, YYYY-MM-DD)
    results,            \* CalculatorView: results (CalculatedMetrics | null)
    viewingEntry,       \* HistoryView: viewingEntry (Entry | null)
    editingEntry,       \* HistoryView: editingEntry (Entry | null)
    displayMemo,        \* HistoryView: the entriesToDisplay memo, when mounted: the
                        \* clock reading of its last run
    settingsCost,       \* SettingsView: cost (the masked text of the cost field)
    isDeleteModalOpen,  \* SettingsView: isDeleteModalOpen
    settingsCalc,       \* SettingsView: calcFuelPrice, calcFuel, calcKms, calcExtras (input
                        \* strings) and calcResult
    probe,              \* a date string handed to the bucketing helpers
    keys,               \* the keys the reports derive for probe, or NoKeys
    period,             \* GeneralReport: period ('week' | 'month' | 'year')
    periodData,         \* GeneralReport: the memoized periodData, when mounted
    periodDeps,         \* GeneralReport: the dependencies periodData was computed from
    range,              \* DayOfWeekAnalysis: range ('30d' | '90d' | 'all')
    dayOfWeekData,      \* DayOfWeekAnalysis: the memoized filteredEntries and chartData
    periodType,         \* PerformanceOptimizer: periodType ('week' | 'month')
    currentDate,        \* PerformanceOptimizer: currentDate
    optimizerData,      \* PerformanceOptimizer: the memoized periodData, when mounted
    optimizerInsights,  \* PerformanceOptimizer: isLoading, aiInsights, error and the
                        \* request awaited
    premiumView         \* PremiumView: selectedTool, aiDateRange, isLoading, insights, error,
                        \* lastAnalysisDataSnapshot and the request awaited

vars == <<tz, regrouped, serviceWorker, weeks, toast, backup, importAttempt, now, entries, vehicleCostPerKm, prevEntries, lastCall, currentView, earnings, kms, hours, costs,
          dateInput, results, viewingEntry, editingEntry, displayMemo, settingsCost, isDeleteModalOpen, settingsCalc, probe, keys, period, periodData, periodDeps, range,
          dayOfWeekData,
          periodType, currentDate, optimizerData, optimizerInsights, premiumView>>

storeVars == <<entries, vehicleCostPerKm, prevEntries, lastCall>>

backupVars == <<backup, importAttempt>>

\* the variables of the tools that stay idle in most specifications
sideVars == <<regrouped, serviceWorker, weeks>>

\* the edit form and the memo of the history and the cost field of the settings
formVars == <<editingEntry, displayMemo, settingsCost, isDeleteModalOpen, settingsCalc>>

calculatorVars == <<earnings, kms, hours, costs, dateInput, results>>

keyVars == <<probe, keys>>

reportVars == <<period, periodData, periodDeps>>

dayOfWeekVars == <<range, dayOfWeekData>>

optimizerVars == <<periodType, currentDate, optimizerData, optimizerInsights>>

-----------------------------------------------------------------------------
(* Bounds of the model *)

\* the date strings of the model span YearSpan years from FirstYear
YearSpan == 4

FirstYear == 2018

Years == FirstYear .. (FirstYear + YearSpan - 1)

\* America/Sao_Paulo, UTC, Europe/Berlin (winter), Asia/Kolkata
TZOffsets == {0 - 180, 0, 60, 330}

-----------------------------------------------------------------------------
(* JavaScript Date *)

SecPerDay == 24 * 60 * 60

NaN == 0 - 1

IsLeapYear(y) == (y % 4 = 0 /\ y % 100 # 0) \/ y % 400 = 0

DaysInMonth(y, m) ==
    IF m = 2 THEN (IF IsLeapYear(y) THEN 29 ELSE 28)
    ELSE IF m \in {4, 6, 9, 11} THEN 30 ELSE 31

\* day number (days since 1970-01-01) of the proleptic Gregorian date y-m-d
DaysFromEra(era, yoe, doy) ==
    era * 146097 + (yoe * 365 + yoe \div 4 - yoe \div 100 + doy) - 719468

DaysFromShiftedYear(yy, m, d) ==
    DaysFromEra(yy \div 400, yy % 400, (153 * ((m + 9) % 12) + 2) \div 5 + d - 1)

DaysFromCivil(y, m, d) == DaysFromShiftedYear(IF m <= 2 THEN y - 1 ELSE y, m, d)

\* the date <<y, m, d>> of a day number
CivilFromMonthPart(y, doy, mp) ==
    <<y + (IF mp < 10 THEN 0 ELSE 1),
      IF mp < 10 THEN mp + 3 ELSE mp - 9,
      doy - (153 * mp + 2) \div 5 + 1>>

CivilFromDayOfYear(y, doy) == CivilFromMonthPart(y, doy, (5 * doy + 2) \div 153)

CivilFromYearOfEra(era, doe, yoe) ==
    CivilFromDayOfYear(yoe + era * 400, doe - (365 * yoe + yoe \div 4 - yoe \div 100))

CivilFromDayOfEra(era, doe) ==
    CivilFromYearOfEra(era, doe,
        (doe - doe \div 1460 + doe \div 36524 - doe \div 146096) \div 365)

CivilFromDays(z) == CivilFromDayOfEra((z + 719468) \div 146097, (z + 719468) % 146097)

\* Date.UTC(year, monthIndex, day): monthIndex is 0-based; a month index outside 0..11
\* and a day outside the month carry into the neighbouring year or month
DateUTC(year, monthIndex, day) ==
    DaysFromCivil(year + monthIndex \div 12, (monthIndex % 12) + 1, 1) * SecPerDay
        + (day - 1) * SecPerDay

\* new Date("YYYY-MM-DD"): a date-only string is UTC midnight; the month is 01..12 and
\* the day 01..31, a day past the end of the month carrying into the next month
\* ("2021-02-29" is 1 March 2021); NaN if it does not parse
NewDateFromString(s) ==
    IF /\ s[2] \in 1..12
       /\ s[3] \in 1..31
    THEN (DaysFromCivil(s[1], s[2], 1) + (s[3] - 1)) * SecPerDay
    ELSE NaN

isNaN(t) == t = NaN

getTimezoneOffset == 0 - tz

\* the local wall clock of a time value, in seconds
LocalTime(t) == t + tz * 60

getUTCFullYear(t) == CivilFromDays(t \div SecPerDay)[1]

getUTCDay(t) == (t \div SecPerDay + 4) % 7

getFullYear(t) == CivilFromDays(LocalTime(t) \div SecPerDay)[1]

\* 0-based month
getMonth(t) == CivilFromDays(LocalTime(t) \div SecPerDay)[2] - 1

getDate(t) == CivilFromDays(LocalTime(t) \div SecPerDay)[3]

\* 0 = Sunday .. 6 = Saturday
getDay(t) == (LocalTime(t) \div SecPerDay + 4) % 7

\* the local time of day of a time value, in seconds
TimeOfDay(t) == LocalTime(t) % SecPerDay

\* new Date(year, monthIndex, day): local midnight
NewDateLocal(year, monthIndex, day) == DateUTC(year, monthIndex, day) - tz * 60

\* date.setDate(day): the day of the month changes, the local time of day stays
setDate(t, day) == NewDateLocal(getFullYear(t), getMonth(t), day) + TimeOfDay(t)

\* date.setMonth(monthIndex): the month changes, day of the month and time of day stay;
\* a day the new month does not have carries into the month after it
setMonth(t, monthIndex) == NewDateLocal(getFullYear(t), monthIndex, getDate(t)) + TimeOfDay(t)

\* date.setHours(h, m, s, ms), with h:m:s given in seconds of the day
setHoursOfDay(t, secondOfDay) == t - TimeOfDay(t) + secondOfDay

\* setHours(0, 0, 0, 0)
StartOfDay == 0

\* setHours(23, 59, 59, 999)
EndOfDay == 23 * 3600 + 59 * 60 + 59

\* date.setMinutes(date.getMinutes() + minutes); an invalid Date stays invalid
AddMinutes(t, minutes) == IF t = NaN THEN NaN ELSE t + minutes * 60

\* a >= b and a <= b of two Dates: false when either is invalid
DateGE(a, b) == a # NaN /\ b # NaN /\ a >= b

DateLE(a, b) == a # NaN /\ b # NaN /\ a <= b

\* Date.prototype.toISOString: the UTC fields year, month, day, hour, minute, second
toISOString(t) ==
    CivilFromDays(t \div SecPerDay)
        \o <<(t % SecPerDay) \div 3600, ((t % SecPerDay) % 3600) \div 60, t % 60>>

\* isoString.split('T')[0]: the date part YYYY-MM-DD
DatePartOf(isoString) == SubSeq(isoString, 1, 3)

\* new Date().toISOString().split('T')[0]
toISODate(t) == DatePartOf(toISOString(t))

\* the Date of hh:mm UTC on the calendar date y-m-d
DateTimeUTC(y, m, d, hh, mm) == DaysFromCivil(y, m, d) * SecPerDay + hh * 3600 + mm * 60

\* the instants at which the model reads the clock:
\* 2024-01-15T01:30Z (Sunday evening in Sao Paulo, Monday elsewhere) and 2024-01-31T12:00Z
FirstNow == DateTimeUTC(2024, 1, 15, 1, 30)

NowChoices == {FirstNow, DateTimeUTC(2024, 1, 31, 12, 0)}

-----------------------------------------------------------------------------
(* Strings *)

DigitChars == <<"0", "1", "2", "3", "4", "5", "6", "7", "8", "9">>

RECURSIVE NumToString(_)
\* Number.prototype.toString() of a non-negative integer
NumToString(n) ==
    IF n < 10 THEN <<DigitChars[n + 1]>>
    ELSE NumToString(n \div 10) \o <<DigitChars[(n % 10) + 1]>>

\* faulty variant: the week and month numbers are not padded
PadStart2_NotPadded(s) == s

\* String.prototype.padStart(2, '0')
PadStart2(s) == IF Len(s) < 2 THEN <<"0">> \o s ELSE s

-----------------------------------------------------------------------------
(* GeneralReport.tsx: helper functions *)

\* weekNo = Math.ceil((((d - yearStart) / 86400000) + 1) / 7), then the template string
WeekKeyOfThursday(d, yearStart) ==
    NumToString(getUTCFullYear(d)) \o <<"-", "S">> \o
    PadStart2(NumToString(((d - yearStart) \div SecPerDay + 1 + 6) \div 7))

\* d.setUTCDate(d.getUTCDate() + 4 - dayNum); yearStart = Date.UTC(d.getUTCFullYear(), 0, 1)
WeekKeyOfDayNum(d0, dayNum) ==
    WeekKeyOfThursday(d0 + (4 - dayNum) * SecPerDay,
                      DateUTC(getUTCFullYear(d0 + (4 - dayNum) * SecPerDay), 0, 1))

\* faulty variant: Sunday keeps day number 0, so it is moved to the Thursday of the next week
WeekKeyOfUTC_SundayIsZero(d0) == WeekKeyOfDayNum(d0, getUTCDay(d0))

\* dayNum = d.getUTCDay() || 7
WeekKeyOfUTC(d0) == WeekKeyOfDayNum(d0, IF getUTCDay(d0) = 0 THEN 7 ELSE getUTCDay(d0))

getWeekKey(date) == WeekKeyOfUTC(DateUTC(getFullYear(date), getMonth(date), getDate(date)))

getMonthKey(date) ==
    NumToString(getFullYear(date)) \o <<"-">> \o PadStart2(NumToString(getMonth(date) + 1))

getYearKey(date) == NumToString(getFullYear(date))

-----------------------------------------------------------------------------
(* types.ts: Entry; useGanhosProStore *)

Entry(id, date, totalEarnings, kmDriven, hoursWorked, additionalCosts) ==
    [id |-> id, date |-> date, totalEarnings |-> totalEarnings, kmDriven |-> kmDriven,
     hoursWorked |-> hoursWorked, additionalCosts |-> additionalCosts]

\* useState default of vehicleCostPerKm: 0.75
DefaultCost == 75

CostChoices == {DefaultCost, 120}

\* a date string that does not parse
NotADate == <<0, 0, 0>>

\* the entry contents found in localStorage: <<date, earnings, km, hours, extra costs>>;
\* "2024-02-30" parses as 1 March 2024, "0000-00-00" does not parse
StoredContents ==
    { <<<<2024, 1, 1>>,   30000, 200, 8, 2000>>,
      <<<<2024, 1, 8>>,   10000,  50, 0,    0>>,
      <<<<2023, 12, 31>>, 30000, 200, 8, 2000>>,
      <<<<2024, 2, 30>>,  15000,   0, 6,  500>>,
      <<<<2024, 1, 31>>,   4000, 100, 3,    0>>,
      <<NotADate,         50000, 100, 5,    0>> }

\* the number of entries loaded from localStorage is at most MaxStored
MaxStored == 3

RECURSIVE SeqsUpTo(_, _)
SeqsUpTo(S, n) ==
    IF n = 0 THEN {<<>>}
    ELSE LET shorter == SeqsUpTo(S, n - 1)
         IN  shorter \cup {Append(q, x) : q \in {r \in shorter : Len(r) = n - 1}, x \in S}

\* the entry lists of at most n entries; ids are distinct
EntryListsUpTo(n) ==
    { [i \in 1..Len(q) |-> Entry(i, q[i][1], q[i][2], q[i][3], q[i][4], q[i][5])] :
        q \in SeqsUpTo(StoredContents, n) }

\* JSON.parse(localStorage.getItem('ganhospro_entries'))
StoredEntryLists == EntryListsUpTo(MaxStored)

\* at most this many of the entries below are stored together
MaxPermuted == 3

\* entries of January 2024 whose net profits are not whole, one of them above
\* 4096: the first two lie in one week, the next two in the week before, the
\* fifth in the first week of the month
PermutedContents ==
    << [date |-> <<2024, 1, 17>>, totalEarnings |-> 400010, kmDriven |-> 57,
        hoursWorked |-> 9, additionalCosts |-> 0],
       [date |-> <<2024, 1, 16>>, totalEarnings |-> 18040, kmDriven |-> 120,
        hoursWorked |-> 8, additionalCosts |-> 0],
       [date |-> <<2024, 1, 10>>, totalEarnings |-> 9570, kmDriven |-> 120,
        hoursWorked |-> 6, additionalCosts |-> 550],
       [date |-> <<2024, 1, 9>>, totalEarnings |-> 24060, kmDriven |-> 100,
        hoursWorked |-> 9, additionalCosts |-> 1230],
       [date |-> <<2024, 1, 2>>, totalEarnings |-> 13310, kmDriven |-> 57,
        hoursWorked |-> 7, additionalCosts |-> 770] >>

\* the stores that hold some of them, the latest first as addEntry sorts them
PermutedEntryLists ==
    { [i \in 1..Len(picked) |->
          Entry(picked[i], PermutedContents[picked[i]].date,
                PermutedContents[picked[i]].totalEarnings,
                PermutedContents[picked[i]].kmDriven,
                PermutedContents[picked[i]].hoursWorked,
                PermutedContents[picked[i]].additionalCosts)] :
        picked \in { q \in SeqsUpTo(1..Len(PermutedContents), MaxPermuted) :
                        \A i \in 1..(Len(q) - 1) : q[i] < q[i + 1] } }


\* addEntry: { ...newEntryData, id: new Date().toISOString(),
\*             date: new Date().toISOString().split('T')[0] }
NewEntryOf(newEntryData, t) ==
    [id              |-> toISOString(t),
     date            |-> toISODate(t),
     totalEarnings   |-> newEntryData.totalEarnings,
     kmDriven        |-> newEntryData.kmDriven,
     hoursWorked     |-> newEntryData.hoursWorked,
     additionalCosts |-> newEntryData.additionalCosts]

\* the comparators of the two sorts by date,
\* (a, b) => new Date(b.date).getTime() - new Date(a.date).getTime() when descending and
\* (a, b) => new Date(a.date).getTime() - new Date(b.date).getTime() otherwise;
\* Array.prototype.sort takes a NaN result as 0
CompareByDate(descending, a, b) ==
    IF isNaN(NewDateFromString(a.date)) \/ isNaN(NewDateFromString(b.date))
    THEN 0
    ELSE IF descending
         THEN NewDateFromString(b.date) - NewDateFromString(a.date)
         ELSE NewDateFromString(a.date) - NewDateFromString(b.date)

\* Array.prototype.sort as the engine runs it on an array of fewer than 64 elements:
\* the run at the start of the array is found, reversed when it is strictly
\* descending, and every later element is put in place by binary insertion. With a
\* comparator that is not a consistent order (an unparseable date compares equal to
\* every date) the result depends on these steps.
RECURSIVE SortRunEnd(_, _, _, _)
\* the index of the last element of the run that starts the array
SortRunEnd(descending, a, isDescending, idx) ==
    IF idx > Len(a) THEN Len(a)
    ELSE IF (CompareByDate(descending, a[idx], a[idx - 1]) < 0) = isDescending
         THEN SortRunEnd(descending, a, isDescending, idx + 1)
         ELSE idx - 1

Reversed(a) == [i \in 1..Len(a) |-> a[Len(a) + 1 - i]]

\* the array after the run at its start has been made ascending, and the run's length
SortMadeRun(descending, a) ==
    LET isDescending == CompareByDate(descending, a[2], a[1]) < 0
        length == SortRunEnd(descending, a, isDescending, 3)
    IN  [length |-> length,
         array |-> IF isDescending
                   THEN Reversed(SubSeq(a, 1, length)) \o SubSeq(a, length + 1, Len(a))
                   ELSE a]

RECURSIVE SortInsertionPoint(_, _, _, _, _)
\* the number of elements of a[1..right] the pivot is put after: the binary search
\* goes left when the pivot compares below the middle element, right otherwise
SortInsertionPoint(descending, a, pivot, left, right) ==
    IF left >= right THEN left
    ELSE IF CompareByDate(descending, pivot, a[left + ((right - left) \div 2) + 1]) < 0
         THEN SortInsertionPoint(descending, a, pivot, left, left + ((right - left) \div 2))
         ELSE SortInsertionPoint(descending, a, pivot, left + ((right - left) \div 2) + 1,
                                 right)

RECURSIVE SortBinaryInsertion(_, _, _)
\* the elements after the first start elements are inserted one by one
SortBinaryInsertion(descending, a, start) ==
    IF start >= Len(a) THEN a
    ELSE LET left == SortInsertionPoint(descending, a, a[start + 1], 0, start)
         IN  SortBinaryInsertion(descending,
                                 SubSeq(a, 1, left) \o <<a[start + 1]>>
                                     \o SubSeq(a, left + 1, start)
                                     \o SubSeq(a, start + 2, Len(a)),
                                 start + 1)

ArraySortByDate(descending, a) ==
    IF Len(a) < 2 THEN a
    ELSE SortBinaryInsertion(descending, SortMadeRun(descending, a).array,
                             SortMadeRun(descending, a).length)

\* .sort((a, b) => new Date(b.date).getTime() - new Date(a.date).getTime())
SortByDateDescending(es) == ArraySortByDate(TRUE, es)

\* the updater of addEntry: [...prevEntries, newEntry].sort(...)
EntriesAfterAdd(prev, newEntryData, t) ==
    SortByDateDescending(Append(prev, NewEntryOf(newEntryData, t)))

\* faulty variant: every entry of the id is replaced, and so is the first entry
EntriesAfterUpdate_FirstToo(prev, updatedEntry) ==
    [i \in 1..Len(prev) |->
        IF prev[i].id = updatedEntry.id \/ i = 1 THEN updatedEntry ELSE prev[i]]

\* the updater of updateEntry: prevEntries.map(entry => entry.id === id ? updatedEntry : entry)
EntriesAfterUpdate(prev, updatedEntry) ==
    [i \in 1..Len(prev) |-> IF prev[i].id = updatedEntry.id THEN updatedEntry ELSE prev[i]]

\* the updater of deleteEntry: prevEntries.filter(entry => entry.id !== id)
EntriesAfterDelete(prev, id) == SelectSeq(prev, LAMBDA entry : entry.id # id)

-----------------------------------------------------------------------------
(* JavaScript values of the derived metrics *)

\* the number n / d
Num(n, d) == [kind |-> "number", num |-> n, den |-> d]

null == [kind |-> "null", num |-> 0, den |-> 1]

\* n / d of two numbers: a zero divisor gives NaN (0 / 0) or an infinity
Divide(n, d) ==
    IF d # 0 THEN Num(n, d)
    ELSE [kind |-> (IF n = 0 THEN "NaN" ELSE "Infinity"), num |-> n, den |-> 0]

-----------------------------------------------------------------------------
(* CalculatorView: calculateMetrics *)

\* the value of a number input: '' (the empty sequence) or the digits of one number
EmptyInput == <<>>

\* parseFloat(s) || 0: '' parses to NaN, which || replaces by 0
ParseFloatOrZero(s) == IF Len(s) = 0 THEN 0 ELSE s[1]

\* carCost = kmDriven * store.vehicleCostPerKm
CalculatorCarCost(kmDriven, cost) == kmDriven * cost

\* netProfit = totalEarnings - carCost - additionalCosts
CalculatorNetProfit(totalEarnings, kmDriven, additionalCosts, cost) ==
    totalEarnings - CalculatorCarCost(kmDriven, cost) - additionalCosts

\* profitPerHour = hoursWorked > 0 ? netProfit / hoursWorked : null
CalculatorProfitPerHour(netProfit, hoursWorked) ==
    IF hoursWorked > 0 THEN Divide(netProfit, hoursWorked) ELSE null

\* the argument of setResults
CalculatorResults(totalEarnings, kmDriven, hoursWorked, additionalCosts, cost) ==
    [kind             |-> "metrics",
     grossProfit      |-> totalEarnings,
     carCost          |-> CalculatorCarCost(kmDriven, cost),
     netProfit        |-> CalculatorNetProfit(totalEarnings, kmDriven, additionalCosts, cost),
     profitPerKm      |-> Divide(CalculatorNetProfit(totalEarnings, kmDriven, additionalCosts, cost),
                                 kmDriven),
     profitPerHour    |-> CalculatorProfitPerHour(
                              CalculatorNetProfit(totalEarnings, kmDriven, additionalCosts, cost),
                              hoursWorked),
     grossProfitPerKm |-> IF kmDriven > 0 THEN Divide(totalEarnings, kmDriven) ELSE Num(0, 1)]

\* results after calculateMetrics: the alert branch returns before setResults
ResultsAfterCalculate(previous, totalEarnings, kmDriven, hoursWorked, additionalCosts, cost) ==
    IF totalEarnings <= 0 \/ kmDriven <= 0 THEN previous
    ELSE CalculatorResults(totalEarnings, kmDriven, hoursWorked, additionalCosts, cost)

\* what the user types into the four number inputs
EarningsInputs == {EmptyInput, <<30000>>}

KmsInputs == {EmptyInput, <<0>>, <<200>>}

HoursInputs == {EmptyInput, <<0>>, <<8>>}

CostsInputs == {EmptyInput, <<2000>>, <<0 - 500>>}

-----------------------------------------------------------------------------
(* HistoryView: SummaryModal, entriesToDisplay, chartData *)

SummaryCarCost(entry, cost) == entry.kmDriven * cost

\* faulty variant: the additional costs are not subtracted
SummaryNetProfit_NoExtras(entry, cost) == entry.totalEarnings - SummaryCarCost(entry, cost)

SummaryNetProfit(entry, cost) ==
    entry.totalEarnings - SummaryCarCost(entry, cost) - entry.additionalCosts

\* profitPerKm = entry.kmDriven > 0 ? netProfit / entry.kmDriven : 0
SummaryProfitPerKm(entry, netProfit) ==
    IF entry.kmDriven > 0 THEN Divide(netProfit, entry.kmDriven) ELSE Num(0, 1)

\* faulty variant: 0 stands in for the missing rate
SummaryProfitPerHour_Zero(entry, netProfit) ==
    IF entry.hoursWorked > 0 THEN Divide(netProfit, entry.hoursWorked) ELSE Num(0, 1)

\* profitPerHour = entry.hoursWorked > 0 ? netProfit / entry.hoursWorked : null
SummaryProfitPerHour(entry, netProfit) ==
    IF entry.hoursWorked > 0 THEN Divide(netProfit, entry.hoursWorked) ELSE null

\* the values the modal renders for its entry
SummaryModal(entry, cost) ==
    [carCost          |-> SummaryCarCost(entry, cost),
     netProfit        |-> SummaryNetProfit(entry, cost),
     profitPerKm      |-> SummaryProfitPerKm(entry, SummaryNetProfit(entry, cost)),
     profitPerHour    |-> SummaryProfitPerHour(entry, SummaryNetProfit(entry, cost)),
     grossProfitPerKm |-> IF entry.kmDriven > 0 THEN Divide(entry.totalEarnings, entry.kmDriven)
                          ELSE Num(0, 1)]

\* fifteenDaysAgo: new Date(); setHours(0, 0, 0, 0); setDate(getDate() - 14)
fifteenDaysAgo(t) == setDate(setHoursOfDay(t, StartOfDay), getDate(t) - 14)

\* .sort((a, b) => new Date(a.date).getTime() - new Date(b.date).getTime())
SortByDate(es) == ArraySortByDate(FALSE, es)

\* the body of the entriesToDisplay memo, run when new Date() reads t
entriesToDisplay(es, t) ==
    SortByDate(SelectSeq(es, LAMBDA e : DateGE(NewDateFromString(e.date), fifteenDaysAgo(t))))

\* no HistoryView is mounted
NoMemo == [mounted |-> FALSE]

\* useMemo(..., [entries]): the memo runs when HistoryView mounts and when it renders
\* with another entries array, and keeps the clock reading of that run
MemoRunAt(t) == [mounted |-> TRUE, at |-> t]

\* entriesToDisplay as rendered: the entries filtered by the clock reading of the
\* memo's last run
displayedEntries ==
    IF displayMemo.mounted THEN entriesToDisplay(entries, displayMemo.at) ELSE <<>>

\* one bar of the history chart
HistoryChartRow(entry, cost) ==
    [Lucro      |-> entry.totalEarnings - entry.kmDriven * cost - entry.additionalCosts,
     GanhosBrutos |-> entry.totalEarnings,
     CustoDoCarro |-> entry.kmDriven * cost,
     CustosExtras |-> entry.additionalCosts]

\* chartData: entriesToDisplay.slice(-7).map(...)
HistoryChartData(es, cost, t) ==
    LET shown == entriesToDisplay(es, t)
        first == IF Len(shown) > 7 THEN Len(shown) - 6 ELSE 1
    IN  [i \in 1..(Len(shown) - first + 1) |-> HistoryChartRow(shown[first + i - 1], cost)]

\* the number of entries of the histories the summary is opened on is at most MaxHistory
MaxHistory == 1

HistoryLists == EntryListsUpTo(MaxHistory)

-----------------------------------------------------------------------------

(* JavaScript numbers: IEEE 754 binary64, round to nearest, ties to even *)

\* A natural number of any size is the sequence of its digits in base
\* LimbBase, the least significant first, with no leading zero; 0 is the
\* empty sequence.
LimbBits == 15
LimbBase == 2^LimbBits

RECURSIVE NatTrim(_)
\* the digits of a without the zeros that lead them
NatTrim(a) ==
    IF Len(a) = 0 THEN <<>>
    ELSE IF a[Len(a)] # 0 THEN a
    ELSE NatTrim(SubSeq(a, 1, Len(a) - 1))

\* the natural number a non-negative integer is
NatOfInt(n) ==
    NatTrim(<<n % LimbBase, (n \div LimbBase) % LimbBase, n \div (LimbBase * LimbBase)>>)

LimbAt(a, i) == IF i >= 1 /\ i <= Len(a) THEN a[i] ELSE 0

RECURSIVE NatAddFrom(_, _, _, _)
\* the digits of a + b + carry from digit i on
NatAddFrom(a, b, i, carry) ==
    IF i > Len(a) /\ i > Len(b)
    THEN IF carry > 0 THEN <<carry>> ELSE <<>>
    ELSE LET s == LimbAt(a, i) + LimbAt(b, i) + carry
         IN  <<s % LimbBase>> \o NatAddFrom(a, b, i + 1, s \div LimbBase)

NatAdd(a, b) == NatAddFrom(a, b, 1, 0)

RECURSIVE NatSubFrom(_, _, _, _)
\* the digits of a - b - borrow from digit i on
NatSubFrom(a, b, i, borrow) ==
    IF i > Len(a) THEN <<>>
    ELSE LET s == LimbAt(a, i) - LimbAt(b, i) - borrow
         IN  <<(s + LimbBase) % LimbBase>>
                 \o NatSubFrom(a, b, i + 1, IF s < 0 THEN 1 ELSE 0)

\* a - b, for a >= b
NatSub(a, b) == NatTrim(NatSubFrom(a, b, 1, 0))

\* a < b
NatLess(a, b) ==
    IF Len(a) # Len(b) THEN Len(a) < Len(b)
    ELSE \E i \in 1..Len(a) :
             a[i] < b[i] /\ \A j \in (i + 1)..Len(a) : a[j] = b[j]

RECURSIVE NatMulSmallFrom(_, _, _, _)
\* the digits of a * m + carry from digit i on, for a digit m
NatMulSmallFrom(a, m, i, carry) ==
    IF i > Len(a)
    THEN IF carry > 0 THEN <<carry>> ELSE <<>>
    ELSE LET s == a[i] * m + carry
         IN  <<s % LimbBase>> \o NatMulSmallFrom(a, m, i + 1, s \div LimbBase)

\* a * LimbBase^k
NatShiftLimbs(a, k) == IF a = <<>> \/ k = 0 THEN a ELSE [i \in 1..k |-> 0] \o a

RECURSIVE NatMulFrom(_, _, _)
\* (the digits of a from i on) * b
NatMulFrom(a, b, i) ==
    IF i > Len(a) THEN <<>>
    ELSE NatAdd(NatTrim(NatMulSmallFrom(b, a[i], 1, 0)),
                NatShiftLimbs(NatMulFrom(a, b, i + 1), 1))

\* a * b
NatMul(a, b) == NatMulFrom(a, b, 1)

\* a * 2^k
NatShiftLeft(a, k) ==
    NatShiftLimbs(NatTrim(NatMulSmallFrom(a, 2^(k % LimbBits), 1, 0)), k \div LimbBits)

\* the integer part of a / 2^k
NatShiftRight(a, k) ==
    LET q == k \div LimbBits
        r == k % LimbBits
    IN  NatTrim([j \in 1..(Len(a) - q) |->
                    (a[j + q] \div 2^r) + (LimbAt(a, j + q + 1) % 2^r) * 2^(LimbBits - r)])

\* a is a multiple of 2^k
NatDivisibleByPow2(a, k) ==
    /\ \A j \in 1..(k \div LimbBits) : LimbAt(a, j) = 0
    /\ LimbAt(a, (k \div LimbBits) + 1) % 2^(k % LimbBits) = 0

\* the binary digit of a that counts 2^k
NatBit(a, k) == (LimbAt(a, (k \div LimbBits) + 1) \div 2^(k % LimbBits)) % 2

\* the number of binary digits of a
NatBitLength(a) ==
    IF a = <<>> THEN 0
    ELSE (Len(a) - 1) * LimbBits
            + (CHOOSE n \in 1..LimbBits : a[Len(a)] \div 2^(n - 1) = 1)

RECURSIVE NatDivSmallFrom(_, _, _, _)
\* the quotient of a by the small number d, from digit i down, and the
\* remainder, given the remainder r left by the digits above i
NatDivSmallFrom(a, d, i, r) ==
    IF i = 0 THEN [quotient |-> <<>>, remainder |-> r]
    ELSE LET t    == r * LimbBase + a[i]
             rest == NatDivSmallFrom(a, d, i - 1, t % d)
         IN  [quotient  |-> rest.quotient \o <<t \div d>>,
              remainder |-> rest.remainder]

\* the significand has this many binary digits
SignificandBits == 53

\* A number is its sign, its significand (a natural number of SignificandBits
\* binary digits, or 0) and the exponent of its last digit:
\* value = mant * 2^exp.
FloatZero == [neg |-> FALSE, mant |-> <<>>, exp |-> 0]

\* Infinity, or -Infinity
FloatInfinity(neg) == [neg |-> neg, infinite |-> TRUE]

IsInfinite(x) == "infinite" \in DOMAIN x

\* NaN
FloatNaN == [nan |-> TRUE]

\* isNaN(x) of a number
IsNaNNumber(x) == "nan" \in DOMAIN x

\* the numbers are the multiples of 2^MinExponent that are below 2^MaxBinaryDigits
MinExponent == 0 - 1074
MaxBinaryDigits == 2^10

\* r * 2^exp as a number, for an r of m binary digits that are not more than
\* SignificandBits + 1: a zero, an infinity when it is 2^MaxBinaryDigits or
\* more, else r with SignificandBits digits
Normalised(neg, r, m, exp) ==
    IF m = 0 THEN [neg |-> neg, mant |-> <<>>, exp |-> 0]
    ELSE IF m + exp > MaxBinaryDigits THEN FloatInfinity(neg)
    ELSE IF m > SignificandBits
    THEN [neg |-> neg, mant |-> NatShiftRight(r, 1), exp |-> exp + 1]
    ELSE [neg |-> neg, mant |-> NatShiftLeft(r, SignificandBits - m),
          exp |-> exp - (SignificandBits - m)]

\* kept, or the next natural number: what mant without its last d digits rounds
\* to, when the digits dropped are over a half of the last one kept, or are a
\* half and kept is odd
RoundedUp(mant, d, inexact, kept) ==
    IF /\ NatBit(mant, d - 1) = 1
       /\ (inexact \/ ~NatDivisibleByPow2(mant, d - 1) \/ NatBit(kept, 0) = 1)
    THEN NatAdd(kept, <<1>>) ELSE kept

\* mant * 2^exp, or a little more when inexact, without its last d digits,
\* d > 0, rounded to the nearest number
RoundDropping(neg, mant, exp, inexact, d) ==
    CHOOSE rounded \in
        UNION { { Normalised(neg, r, NatBitLength(r), exp + d) :
                    r \in {RoundedUp(mant, d, inexact, kept)} } :
                kept \in {NatShiftRight(mant, d)} } : TRUE

\* mant * 2^exp, or a little more when inexact, rounded to the nearest
\* number, ties to even: the digits below the SignificandBits leading ones
\* and below 2^MinExponent are dropped, and what is left is an infinity when
\* it is 2^MaxBinaryDigits or more
RoundToNearest(neg, mant, exp, inexact) ==
    CHOOSE rounded \in
        { IF n = 0 THEN FloatZero
          ELSE IF n <= SignificandBits /\ exp >= MinExponent
          THEN Normalised(neg, mant, n, exp)
          ELSE RoundDropping(neg, mant, exp, inexact,
                             IF n - SignificandBits > MinExponent - exp
                             THEN n - SignificandBits ELSE MinExponent - exp) :
            n \in {NatBitLength(mant)} } : TRUE

\* the same, the digits worked out once
FloatRound(neg, mant, exp, inexact) ==
    CHOOSE rounded \in {RoundToNearest(neg, m, exp, inexact) : m \in {mant}} : TRUE

\* the number an integer is
FloatOfInt(n) ==
    FloatRound(n < 0, NatOfInt(IF n < 0 THEN 0 - n ELSE n), 0, FALSE)

\* the number nearest to a / 100, for a natural number a that is not zero: what
\* a decimal of two places parses to
FloatOfDecimal2(neg, a) ==
    CHOOSE nearest \in
        { FloatRound(neg, NatTrim(q.quotient), 0 - 4 * LimbBits, q.remainder > 0) :
            q \in { NatDivSmallFrom(shifted, 100, Len(shifted), 0) :
                      shifted \in {NatShiftLimbs(a, 4)} } } : TRUE

\* the number the decimal n / 100 parses to, n written with two decimals
FloatOfHundredths(n) ==
    IF n = 0 THEN FloatZero
    ELSE FloatOfDecimal2(n < 0, NatOfInt(IF n < 0 THEN 0 - n ELSE n))

\* -x; -0 is the zero of the other sign
FloatNeg(x) == IF IsNaNNumber(x) THEN x ELSE [x EXCEPT !.neg = ~x.neg]

\* x + y for a y under a quarter of the last digit of x: x and a little more, or
\* a little less
FloatSumFar(x, y) ==
    FloatRound(x.neg,
               IF x.neg = y.neg THEN NatShiftLeft(x.mant, 2)
               ELSE NatSub(NatShiftLeft(x.mant, 2), <<1>>),
               x.exp - 2, TRUE)

\* x + y for two numbers that are not zero, e the lesser of their exponents
FloatSumNear(x, y, e) ==
    CHOOSE sum \in
        { FloatRound(IF x.neg = y.neg \/ ~NatLess(mx, my) THEN x.neg ELSE y.neg,
                     IF x.neg = y.neg THEN NatAdd(mx, my)
                     ELSE IF NatLess(mx, my) THEN NatSub(my, mx)
                     ELSE NatSub(mx, my),
                     e, FALSE) :
            mx \in {NatShiftLeft(x.mant, x.exp - e)},
            my \in {NatShiftLeft(y.mant, y.exp - e)} } : TRUE

\* x + y; a sum of two zeros is -0 only when both are, and the sum of the two
\* infinities is NaN
FloatSum(x, y) ==
    IF IsNaNNumber(x) \/ IsNaNNumber(y) THEN FloatNaN
    ELSE IF IsInfinite(x) THEN (IF IsInfinite(y) /\ x.neg # y.neg THEN FloatNaN ELSE x)
    ELSE IF IsInfinite(y) THEN y
    ELSE IF x.mant = <<>> /\ y.mant = <<>> THEN [FloatZero EXCEPT !.neg = x.neg /\ y.neg]
    ELSE IF x.mant = <<>> THEN y
    ELSE IF y.mant = <<>> THEN x
    ELSE IF x.exp - y.exp > SignificandBits + 2 \/ y.exp - x.exp > SignificandBits + 2
    THEN FloatSumFar(IF x.exp > y.exp THEN x ELSE y, IF x.exp > y.exp THEN y ELSE x)
    ELSE FloatSumNear(x, y, IF x.exp < y.exp THEN x.exp ELSE y.exp)

\* x + y, the operands worked out once
FloatAdd(x, y) == CHOOSE sum \in {FloatSum(a, b) : a \in {x}, b \in {y}} : TRUE

\* x - y
FloatSub(x, y) == FloatAdd(x, FloatNeg(y))

\* x * y; 0 times an infinity is NaN
FloatProduct(x, y) ==
    IF IsNaNNumber(x) \/ IsNaNNumber(y) THEN FloatNaN
    ELSE IF IsInfinite(x) \/ IsInfinite(y)
    THEN (IF (~IsInfinite(x) /\ x.mant = <<>>) \/ (~IsInfinite(y) /\ y.mant = <<>>)
          THEN FloatNaN ELSE FloatInfinity(x.neg # y.neg))
    ELSE IF x.mant = <<>> \/ y.mant = <<>> THEN [FloatZero EXCEPT !.neg = x.neg # y.neg]
    ELSE FloatRound(x.neg # y.neg, NatMul(x.mant, y.mant), x.exp + y.exp, FALSE)

\* x * y, the operands worked out once
FloatMul(x, y) == CHOOSE product \in {FloatProduct(a, b) : a \in {x}, b \in {y}} : TRUE

\* x > y, which does not hold of NaN
FloatGreater(x, y) ==
    IF IsNaNNumber(x) \/ IsNaNNumber(y) THEN FALSE
    ELSE IF IsInfinite(y) THEN y.neg /\ ~(IsInfinite(x) /\ x.neg)
    ELSE IF IsInfinite(x) THEN ~x.neg
    ELSE \E d \in {FloatSub(x, y)} : ~d.neg /\ (IsInfinite(d) \/ d.mant # <<>>)

\* |x - y| < 2^(-k)
FloatWithin(x, y, k) ==
    \E d \in {FloatSub(x, y)} : d.mant = <<>> \/ d.exp + SignificandBits <= 0 - k

\* the greatest digit q below 32 with q * d <= t, for t < 32 * d: the leading
\* digits of t and of d bound it from both sides
NatDivDigit(d, t) ==
    CHOOSE q \in ((LimbAt(t, Len(d) + 1) * LimbBase + LimbAt(t, Len(d))) \div (d[Len(d)] + 1))
                   ..((LimbAt(t, Len(d) + 1) * LimbBase + LimbAt(t, Len(d))) \div d[Len(d)]) :
        /\ q <= 31
        /\ ~NatLess(t, NatTrim(NatMulSmallFrom(d, q, 1, 0)))
        /\ NatLess(t, NatTrim(NatMulSmallFrom(d, q + 1, 1, 0)))

\* the digit and what is left of t once digit * d is taken from it
NatDivTake(d, t, digit) ==
    [digit |-> digit, remainder |-> NatSub(t, NatTrim(NatMulSmallFrom(d, digit, 1, 0)))]

\* one step of the long division by d: the remainder r of the digits above is
\* followed by five more binary digits
NatDivStep(d, r, five) ==
    CHOOSE step \in {NatDivTake(d, t, NatDivDigit(d, t)) :
                        t \in {NatAdd(NatShiftLeft(r, 5), NatOfInt(five))}} : TRUE

\* three steps of the long division by d: the remainder r is followed by a digit
\* of base LimbBase
NatDivLimb(d, r, limb) ==
    CHOOSE step \in
        UNION { UNION { { [digit |-> high.digit * 1024 + mid.digit * 32 + low.digit,
                           remainder |-> low.remainder] :
                            low \in {NatDivStep(d, mid.remainder, limb % 32)} } :
                        mid \in {NatDivStep(d, high.remainder, (limb \div 32) % 32)} } :
                high \in {NatDivStep(d, r, limb \div 1024)} } : TRUE

RECURSIVE NatDivFrom(_, _, _, _)
\* the digits of the quotient of a by d, from digit i of a down and the most
\* significant first, and the remainder, given the remainder r left by the
\* digits above i
NatDivFrom(a, d, i, r) ==
    IF i = 0 THEN [quotient |-> <<>>, remainder |-> r]
    ELSE CHOOSE result \in
            UNION {{[quotient  |-> <<step.digit>> \o rest.quotient,
                     remainder |-> rest.remainder] :
                        rest \in {NatDivFrom(a, d, i - 1, step.remainder)}} :
                            step \in {NatDivLimb(d, r, a[i])}} : TRUE

\* the quotient of a by d and the remainder
NatDiv(a, d) ==
    CHOOSE whole \in
        { [quotient  |-> NatTrim([i \in 1..Len(a) |-> result.quotient[Len(a) + 1 - i]]),
           remainder |-> result.remainder] :
            result \in {NatDivFrom(a, d, Len(a), <<>>)} } : TRUE

RECURSIVE NatTrailingZeros(_)
\* the number of zeros that end the binary digits of a, for a that is not zero
NatTrailingZeros(a) ==
    IF a[1] = 0 THEN LimbBits + NatTrailingZeros(Tail(a))
    ELSE CHOOSE k \in 0..(LimbBits - 1) : a[1] % 2^(k + 1) = 2^k

\* the quotient of a by d and the remainder, d = odd * 2^zeros: by the short
\* division when odd is a single digit, by the long division otherwise
NatDivByFactors(a, d, zeros, odd) ==
    IF Len(odd) = 1
    THEN CHOOSE result \in
            { [quotient  |-> NatTrim(short.quotient),
               remainder |-> IF short.remainder = 0 /\ NatDivisibleByPow2(a, zeros)
                             THEN <<>> ELSE <<1>>] :
                short \in { NatDivSmallFrom(whole, odd[1], Len(whole), 0) :
                              whole \in {NatShiftRight(a, zeros)} } } : TRUE
    ELSE NatDiv(a, d)

\* x / y; 0 / 0 and the quotient of two infinities are NaN; the quotient of
\* the significands is worked out to two digits more than are kept, and what
\* is left over is known to be zero or not
FloatQuotient(x, y) ==
    IF IsNaNNumber(x) \/ IsNaNNumber(y) THEN FloatNaN
    ELSE IF IsInfinite(x)
    THEN (IF IsInfinite(y) THEN FloatNaN ELSE FloatInfinity(x.neg # y.neg))
    ELSE IF IsInfinite(y) THEN [FloatZero EXCEPT !.neg = x.neg # y.neg]
    ELSE IF y.mant = <<>>
    THEN (IF x.mant = <<>> THEN FloatNaN ELSE FloatInfinity(x.neg # y.neg))
    ELSE IF x.mant = <<>> THEN [FloatZero EXCEPT !.neg = x.neg # y.neg]
    ELSE CHOOSE quotient \in
            { FloatRound(x.neg # y.neg, result.quotient,
                         x.exp - y.exp - (SignificandBits + 2), result.remainder # <<>>) :
                result \in { NatDivByFactors(NatShiftLeft(x.mant, SignificandBits + 2), y.mant,
                                             zeros, NatShiftRight(y.mant, zeros)) :
                               zeros \in {NatTrailingZeros(y.mant)} } } : TRUE

\* x / y, the operands worked out once
FloatDiv(x, y) == CHOOSE quotient \in {FloatQuotient(a, b) : a \in {x}, b \in {y}} : TRUE

RECURSIVE NatToInt(_)
\* the integer a natural number is
NatToInt(a) == IF a = <<>> THEN 0 ELSE a[1] + LimbBase * NatToInt(Tail(a))

\* Math.round(x): the nearest integer, the greater one of two that are as near;
\* -0 for what rounds to zero from below, and x itself when it is NaN, an
\* infinity or a zero
MathRound(x) ==
    CHOOSE rounded \in
        { IF IsNaNNumber(v) \/ IsInfinite(v) THEN v
          ELSE IF v.mant = <<>> \/ v.exp >= 0 THEN v
          ELSE LET k     == 0 - v.exp
                   whole == NatShiftRight(v.mant, k)
                   half  == NatBit(v.mant, k - 1) = 1
                   more  == ~NatDivisibleByPow2(v.mant, k - 1)
                   up    == IF v.neg THEN half /\ more ELSE half
                   n     == IF up THEN NatAdd(whole, <<1>>) ELSE whole
               IN  IF n = <<>> THEN [neg |-> v.neg, mant |-> <<>>, exp |-> 0]
                   ELSE FloatRound(v.neg, n, 0, FALSE) :
            v \in {x} } : TRUE

-----------------------------------------------------------------------------
(* GeneralReport.tsx: periodData *)

EmptyString == <<>>

\* UTF-16 code unit of the characters a key holds
CharCode(c) ==
    IF c = "-" THEN 45
    ELSE IF c = "S" THEN 83
    ELSE 48 + (CHOOSE i \in 0..9 : DigitChars[i + 1] = c)

RECURSIVE StringLess(_, _)
\* a < b in code-unit order, the default order of Array.prototype.sort
StringLess(a, b) ==
    IF Len(b) = 0 THEN FALSE
    ELSE IF Len(a) = 0 THEN TRUE
    ELSE IF CharCode(Head(a)) # CharCode(Head(b)) THEN CharCode(Head(a)) < CharCode(Head(b))
    ELSE StringLess(Tail(a), Tail(b))

RECURSIVE SortStrings(_)
\* Array.from(keys).sort() of distinct strings
SortStrings(S) ==
    IF S = {} THEN <<>>
    ELSE LET least == CHOOSE x \in S : \A y \in S \ {x} : StringLess(x, y)
         IN  <<least>> \o SortStrings(S \ {least})

getGroupKey(p, d) ==
    IF p = "week" THEN getWeekKey(d) ELSE IF p = "month" THEN getMonthKey(d) ELSE getYearKey(d)

\* -Infinity
NegInfinity == FloatInfinity(TRUE)

\* entry.totalEarnings - (entry.kmDriven * vehicleCostPerKm) - entry.additionalCosts
\* in binary64, on the numbers the stored amounts are: money and the cost are
\* decimals of two places, kilometres are whole
ReportNetProfit(entry, cost) ==
    FloatSub(FloatSub(FloatOfHundredths(entry.totalEarnings),
                      FloatMul(FloatOfInt(entry.kmDriven), FloatOfHundredths(cost))),
             FloatOfHundredths(entry.additionalCosts))

\* new Map(): the keys in the order they were first set, and the value of each
NewMap == [keys |-> <<>>, get |-> <<>>]

\* aggregator.set(key, current): a key that is new comes last
MapSet(map, key, value) ==
    [keys |-> IF key \in DOMAIN map.get THEN map.keys ELSE Append(map.keys, key),
     get  |-> [k \in DOMAIN map.get \cup {key} |-> IF k = key THEN value ELSE map.get[k]]]

\* aggregator.get(key) || { totalProfit: 0, days: new Set() }
AggregatorGet(aggregator, key) ==
    IF key \in DOMAIN aggregator.get THEN aggregator.get[key]
    ELSE [totalProfit |-> FloatZero, days |-> {}]

\* faulty variant: the bucket total is assigned, not accumulated
AggregatorAdd_Overwrite(aggregator, key, netProfit, date) ==
    CHOOSE map \in
        { MapSet(aggregator, key, [totalProfit |-> netProfit,
                                   days |-> current.days \cup {date}]) :
            current \in {AggregatorGet(aggregator, key)} } : TRUE

\* faulty variant: the entry that opens a bucket is not added to its total
AggregatorAdd_FirstSkipped(aggregator, key, netProfit, date) ==
    CHOOSE map \in
        { MapSet(aggregator, key, current) :
            current \in { [totalProfit |-> IF key \in DOMAIN aggregator.get
                                           THEN FloatAdd(was.totalProfit, netProfit)
                                           ELSE FloatZero,
                           days |-> was.days \cup {date}] :
                            was \in {AggregatorGet(aggregator, key)} } } : TRUE

\* current = aggregator.get(key) || { totalProfit: 0, days: new Set() };
\* current.totalProfit += netProfit; current.days.add(entry.date);
\* aggregator.set(key, current)
AggregatorAdd(aggregator, key, netProfit, date) ==
    CHOOSE map \in
        { MapSet(aggregator, key, current) :
            current \in { [totalProfit |-> FloatAdd(was.totalProfit, netProfit),
                           days |-> was.days \cup {date}] :
                            was \in {AggregatorGet(aggregator, key)} } } : TRUE

\* faulty variant: >= lets the last of several equal maxima win
BestDayStep_LastWins(overallBestDay, netProfit, date) ==
    IF ~FloatGreater(overallBestDay.profit, netProfit)
    THEN [profit |-> netProfit, date |-> date]
    ELSE overallBestDay

\* if (netProfit > overallBestDay.profit) overallBestDay = { profit, date }
BestDayStep(overallBestDay, netProfit, date) ==
    IF FloatGreater(netProfit, overallBestDay.profit)
    THEN [profit |-> netProfit, date |-> date]
    ELSE overallBestDay

\* the body of the forEach callback for an entry of a valid date
ReportAccumulate(acc, key, netProfit, date) ==
    [aggregator     |-> AggregatorAdd(acc.aggregator, key, netProfit, date),
     overallBestDay |-> BestDayStep(acc.overallBestDay, netProfit, date)]

RECURSIVE ReportForEach(_, _, _, _, _)
\* entries.forEach(entry => ...), from index i on
ReportForEach(es, i, cost, p, acc) ==
    IF i > Len(es) THEN acc
    ELSE IF isNaN(NewDateFromString(es[i].date)) THEN ReportForEach(es, i + 1, cost, p, acc)
    ELSE CHOOSE result \in
            { ReportForEach(es, i + 1, cost, p, next) :
                next \in UNION { { ReportAccumulate(acc, key, netProfit, es[i].date) :
                                     netProfit \in {ReportNetProfit(es[i], cost)} } :
                                 key \in {getGroupKey(p, NewDateFromString(es[i].date))} } } : TRUE

RECURSIVE ReduceTotalProfit(_, _, _)
\* Array.from(aggregator.values()).reduce((acc, curr) => acc + curr.totalProfit, 0),
\* from the i-th value on: a Map hands out its values in the order of its keys
ReduceTotalProfit(aggregator, i, acc) ==
    IF i > Len(aggregator.keys) THEN acc
    ELSE CHOOSE total \in
            { ReduceTotalProfit(aggregator, i + 1, sum) :
                sum \in {FloatAdd(acc, aggregator.get[aggregator.keys[i]].totalProfit)} } : TRUE

\* x.toFixed(2) of a number below 10^21: the minus sign it writes, and its digits
\* as the count n of hundredths with n / 100 nearest to |x|, the larger n of two
\* that are as near
toFixed2(x) ==
    [minus |-> x.neg /\ x.mant # <<>>,
     hundredths |->
        IF x.mant = <<>> THEN <<>>
        ELSE IF x.exp >= 0
        THEN NatShiftLeft(NatTrim(NatMulSmallFrom(x.mant, 100, 1, 0)), x.exp)
        ELSE NatAdd(NatShiftRight(NatTrim(NatMulSmallFrom(x.mant, 100, 1, 0)), 0 - x.exp),
                    NatOfInt(NatBit(NatTrim(NatMulSmallFrom(x.mant, 100, 1, 0)),
                                    0 - x.exp - 1)))]

\* parseFloat of the string toFixed(2) wrote: the number nearest to the decimal,
\* -0 for '-0.00'
parseFloatFixed2(s) ==
    IF s.hundredths = <<>> THEN [neg |-> s.minus, mant |-> <<>>, exp |-> 0]
    ELSE FloatOfDecimal2(s.minus, s.hundredths)

\* the centavos x.toFixed(2) writes
CentavosOf(x) ==
    CHOOSE n \in {(IF written.minus THEN 0 - 1 ELSE 1) * NatToInt(written.hundredths) :
                     written \in {toFixed2(x)}} : TRUE

RECURSIVE ReportChartRows(_, _, _)
\* sortedKeys.map(key => ({ name, Lucro: parseFloat(data.totalProfit.toFixed(2)) })),
\* from the i-th key on; a row keeps the bucket key its name is formatted from
ReportChartRows(aggregator, sortedKeys, i) ==
    IF i > Len(sortedKeys) THEN <<>>
    ELSE CHOOSE rows \in
            { <<[key |-> sortedKeys[i], Lucro |-> parseFloatFixed2(written)]>>
                    \o ReportChartRows(aggregator, sortedKeys, i + 1) :
                written \in {toFixed2(total) :
                                total \in {aggregator.get[sortedKeys[i]].totalProfit}} } : TRUE

\* what the useMemo returns once the entries are folded
PeriodDataOf(folded, sortedKeys, totalProfitAllTime, totalDays) ==
    [mounted |-> TRUE,
     aggregator |-> folded.aggregator,
     chartData |-> ReportChartRows(folded.aggregator, sortedKeys, 1),
     summaryStats |-> [totalProfit     |-> totalProfitAllTime,
                       avgProfitPerDay |-> IF totalDays > 0
                                           THEN FloatDiv(totalProfitAllTime, FloatOfInt(totalDays))
                                           ELSE FloatZero,
                       daysWorked      |-> totalDays,
                       bestDay         |-> folded.overallBestDay]]

\* aggregator and overallBestDay once entries.forEach has run
ReportFolded(es, cost, p) ==
    ReportForEach(es, 1, cost, p,
                  [aggregator     |-> NewMap,
                   overallBestDay |-> [profit |-> NegInfinity, date |-> EmptyString]])

\* the value of the useMemo
ComputePeriodData(es, cost, p) ==
    IF Len(es) = 0
    THEN [mounted |-> TRUE, aggregator |-> NewMap, chartData |-> <<>>,
          summaryStats |-> [totalProfit |-> FloatZero, avgProfitPerDay |-> FloatZero,
                            daysWorked |-> 0,
                            bestDay |-> [profit |-> FloatZero, date |-> EmptyString]]]
    ELSE CHOOSE data \in
            UNION { { PeriodDataOf(folded, sortedKeys, totalProfitAllTime, Len(es)) :
                        sortedKeys \in {SortStrings(DOMAIN folded.aggregator.get)},
                        totalProfitAllTime \in {ReduceTotalProfit(folded.aggregator, 1, FloatZero)} } :
                    folded \in {ReportFolded(es, cost, p)} } : TRUE

Periods == {"week", "month", "year"}

\* faulty variant: the period is left out of the dependency list
periodDataDeps_PeriodLeftOut(es, cost, p) == <<es, cost>>

\* the dependency list of the useMemo
periodDataDeps(es, cost, p) == <<es, cost, p>>

\* useMemo at a render: the stored value when every dependency is what it
\* was at the last computation, a new computation otherwise
useMemoPeriodData(value, deps, es, cost, p) ==
    IF deps = periodDataDeps(es, cost, p)
    THEN value
    ELSE ComputePeriodData(es, cost, p)

-----------------------------------------------------------------------------
(* DayOfWeekAnalysis: filteredEntries, chartData *)

DateRanges == {"30d", "90d", "all"}

\* cutoffDate: new Date(); setHours(0, 0, 0, 0); setDate(getDate() - days)
cutoffDate(t, days) == setDate(setHoursOfDay(t, StartOfDay), getDate(t) - days)

DayOfWeekFilteredEntries(es, r, t) ==
    IF r = "all" THEN es
    ELSE SelectSeq(es, LAMBDA e :
            DateGE(NewDateFromString(e.date), cutoffDate(t, IF r = "30d" THEN 30 ELSE 90)))

\* Array(7).fill(null).map(() => ({ ... })), indexed 0..6
EmptyDays ==
    [index \in 0..6 |->
        [totalProfit |-> 0, totalEarnings |-> 0, totalHours |-> 0, totalKm |-> 0, count |-> 0]]

\* faulty variant: an entry without hours is let through
DayOfWeekSkips_NegativeHours(entry) ==
    isNaN(NewDateFromString(entry.date)) \/ entry.hoursWorked < 0

\* if (isNaN(date.getTime()) || entry.hoursWorked <= 0) return
DayOfWeekSkips(entry) ==
    isNaN(NewDateFromString(entry.date)) \/ entry.hoursWorked <= 0

\* part_002 chartData, line 110
DayOfWeekNetProfit(entry, cost) ==
    entry.totalEarnings - (entry.kmDriven * cost) - entry.additionalCosts

\* days[dayIndex] accumulates the entry
DayOfWeekAdd(days, dayIndex, entry, cost) ==
    [days EXCEPT ![dayIndex] =
        [totalProfit   |-> @.totalProfit + DayOfWeekNetProfit(entry, cost),
         totalEarnings |-> @.totalEarnings + entry.totalEarnings,
         totalHours    |-> @.totalHours + entry.hoursWorked,
         totalKm       |-> @.totalKm + entry.kmDriven,
         count         |-> @.count + 1]]

RECURSIVE DayOfWeekForEach(_, _, _, _)
\* filteredEntries.forEach(entry => ...), from index i on
DayOfWeekForEach(es, i, cost, days) ==
    IF i > Len(es) THEN days
    ELSE IF DayOfWeekSkips(es[i]) THEN DayOfWeekForEach(es, i + 1, cost, days)
    ELSE DayOfWeekForEach(es, i + 1, cost,
            DayOfWeekAdd(days, getDay(NewDateFromString(es[i].date)), es[i], cost))

dayNames == <<"Dom", "Seg", "Ter", "Qua", "Qui", "Sex", "Sab">>

\* faulty variant: the rates are divided out whatever the count
DayOfWeekRates_Unguarded(days) ==
    [index \in DOMAIN days |->
        [name            |-> dayNames[index + 1],
         profitPerHour   |-> Divide(days[index].totalProfit, days[index].totalHours),
         earningsPerHour |-> Divide(days[index].totalEarnings, days[index].totalHours),
         avgKm           |-> Divide(days[index].totalKm, days[index].count)]]

\* days.map((day, index) => ({ name, profitPerHour, earningsPerHour, avgKm }))
DayOfWeekRates(days) ==
    [index \in DOMAIN days |->
        [name            |-> dayNames[index + 1],
         profitPerHour   |-> IF days[index].count > 0
                             THEN Divide(days[index].totalProfit, days[index].totalHours)
                             ELSE Num(0, 1),
         earningsPerHour |-> IF days[index].count > 0
                             THEN Divide(days[index].totalEarnings, days[index].totalHours)
                             ELSE Num(0, 1),
         avgKm           |-> IF days[index].count > 0
                             THEN Divide(days[index].totalKm, days[index].count)
                             ELSE Num(0, 1)]]

\* the two useMemo values: filteredEntries, and chartData with the days it is mapped from
DayOfWeekFromFiltered(filtered, cost) ==
    [mounted         |-> TRUE,
     filteredEntries |-> filtered,
     days            |-> DayOfWeekForEach(filtered, 1, cost, EmptyDays),
     chartData       |-> DayOfWeekRates(DayOfWeekForEach(filtered, 1, cost, EmptyDays))]

ComputeDayOfWeekData(es, cost, r, t) ==
    DayOfWeekFromFiltered(DayOfWeekFilteredEntries(es, r, t), cost)

-----------------------------------------------------------------------------
(* PerformanceOptimizer: getWeekRange, getMonthRange, handleDateChange, periodData *)

\* endOfWeek = new Date(startOfWeek); setDate(getDate() + 6); setHours(23, 59, 59, 999)
WeekRangeFrom(startOfWeek) ==
    [start |-> startOfWeek,
     end   |-> setHoursOfDay(setDate(startOfWeek, getDate(startOfWeek) + 6), EndOfDay)]

\* faulty variant: the Sunday adjustment is dropped, diff = date.getDate() - day + 1
getWeekRange_NoSundayAdjustment(d) ==
    WeekRangeFrom(setHoursOfDay(setDate(d, getDate(d) - getDay(d) + 1), StartOfDay))

\* diff = date.getDate() - day + (day === 0 ? -6 : 1); startOfWeek at 00:00:00.000
getWeekRange(d) ==
    WeekRangeFrom(setHoursOfDay(setDate(d, getDate(d) - getDay(d) + (IF getDay(d) = 0 THEN 0 - 6 ELSE 1)),
                           StartOfDay))

getMonthRange(d) ==
    [start |-> NewDateLocal(getFullYear(d), getMonth(d), 1),
     end   |-> setHoursOfDay(NewDateLocal(getFullYear(d), getMonth(d) + 1, 0), EndOfDay)]

\* const date = new Date(d): both ranges work on a copy, so the Date handed in keeps its
\* value after the call
DateAfterRange(d) == d

PeriodTypes == {"week", "month"}

Directions == {"prev", "next"}

\* newDate of handleDateChange
ShiftedDate(d, type, direction) ==
    IF type = "week"
    THEN setDate(d, getDate(d) + (IF direction = "prev" THEN 0 - 7 ELSE 7))
    ELSE setMonth(d, getMonth(d) + (IF direction = "prev" THEN 0 - 1 ELSE 1))

\* faulty variant: the entry date is compared as parsed, at UTC midnight
OptimizerEntryDate_Unadjusted(e) == NewDateFromString(e.date)

\* entryDate = new Date(e.date); entryDate.setMinutes(getMinutes() + getTimezoneOffset())
OptimizerEntryDate(e) == AddMinutes(NewDateFromString(e.date), getTimezoneOffset)

\* store.entries.filter(e => entryDate >= start && entryDate <= end)
OptimizerFilter(es, window) ==
    SelectSeq(es, LAMBDA e : /\ DateGE(OptimizerEntryDate(e), window.start)
                             /\ DateLE(OptimizerEntryDate(e), window.end))

\* dateKey = date.toISOString().split('T')[0] of the adjusted date: its UTC calendar date
OptimizerDateKey(e) == CivilFromDays(OptimizerEntryDate(e) \div SecPerDay)

\* PerformanceOptimizer.tsx periodData, line 109
OptimizerNetProfit(entry, cost) ==
    entry.totalEarnings - (entry.kmDriven * cost) - entry.additionalCosts

\* dailyData.get(dateKey) || { totalProfit: 0, totalKm: 0, totalHours: 0, count: 0 }; then +=
DailyDataAdd(dailyData, dateKey, entry, cost) ==
    LET current == IF dateKey \in DOMAIN dailyData THEN dailyData[dateKey]
                   ELSE [totalProfit |-> 0, totalKm |-> 0, totalHours |-> 0, count |-> 0]
        updated == [totalProfit |-> current.totalProfit + OptimizerNetProfit(entry, cost),
                    totalKm     |-> current.totalKm + entry.kmDriven,
                    totalHours  |-> current.totalHours + entry.hoursWorked,
                    count       |-> current.count + 1]
    IN  [k \in DOMAIN dailyData \cup {dateKey} |-> IF k = dateKey THEN updated ELSE dailyData[k]]

RECURSIVE OptimizerForEach(_, _, _, _)
\* filteredEntries.forEach(entry => ...), from index i on
OptimizerForEach(es, i, cost, dailyData) ==
    IF i > Len(es) THEN dailyData
    ELSE OptimizerForEach(es, i + 1, cost,
            DailyDataAdd(dailyData, OptimizerDateKey(es[i]), es[i], cost))

RECURSIVE OptimizerTotalProfit(_, _, _)
\* filteredEntries.reduce((acc, e) => acc + (e.totalEarnings - ...), 0), line 129
OptimizerTotalProfit(es, n, cost) ==
    IF n = 0 THEN 0
    ELSE OptimizerTotalProfit(es, n - 1, cost)
            + (es[n].totalEarnings - (es[n].kmDriven * cost) - es[n].additionalCosts)

RECURSIVE OptimizerTotalHours(_, _)
OptimizerTotalHours(es, n) ==
    IF n = 0 THEN 0 ELSE OptimizerTotalHours(es, n - 1) + es[n].hoursWorked

RECURSIVE OptimizerTotalKm(_, _)
OptimizerTotalKm(es, n) ==
    IF n = 0 THEN 0 ELSE OptimizerTotalKm(es, n - 1) + es[n].kmDriven

\* stats of the returned object
OptimizerStats(filtered, dailyData, cost) ==
    [totalProfit     |-> OptimizerTotalProfit(filtered, Len(filtered), cost),
     avgProfitPerDay |-> IF Cardinality(DOMAIN dailyData) > 0
                         THEN Divide(OptimizerTotalProfit(filtered, Len(filtered), cost),
                                     Cardinality(DOMAIN dailyData))
                         ELSE Num(0, 1),
     profitPerHour   |-> IF OptimizerTotalHours(filtered, Len(filtered)) > 0
                         THEN Divide(OptimizerTotalProfit(filtered, Len(filtered), cost),
                                     OptimizerTotalHours(filtered, Len(filtered)))
                         ELSE Num(0, 1),
     daysWorked      |-> Cardinality(DOMAIN dailyData),
     totalKm         |-> OptimizerTotalKm(filtered, Len(filtered))]

OptimizerFromFiltered(window, filtered, cost) ==
    [mounted         |-> TRUE,
     start           |-> window.start,
     end             |-> window.end,
     filteredEntries |-> filtered,
     dailyData       |-> OptimizerForEach(filtered, 1, cost, <<>>),
     stats           |-> OptimizerStats(filtered, OptimizerForEach(filtered, 1, cost, <<>>), cost)]

OptimizerInWindow(es, cost, window) ==
    OptimizerFromFiltered(window, OptimizerFilter(es, window), cost)

\* the value of the useMemo; the chart rows are the entries of dailyData
ComputeOptimizerData(es, cost, type, d) ==
    OptimizerInWindow(es, cost, IF type = "week" THEN getWeekRange(d) ELSE getMonthRange(d))

\* PerformanceOptimizer's insights as useState leaves them on mount
OptimizerInsightsInitial ==
    [isLoading |-> FALSE, aiInsights |-> EmptyString, error |-> EmptyString, request |-> null]

\* the message of setError when fewer than two entries lie in the period
OptimizerTooFewEntriesError == <<"min2">>

\* the message of setError when the request fails
OptimizerConnectionError == <<"connection", "later">>

\* the period a prompt names: formatPeriodLabel(periodData.start, periodData.end, periodType)
PromptPeriod(data, type) == <<type, data.start, data.end>>

\* response.text of a fulfilled request: an analysis of the period named in the
\* prompt, or no text at all (undefined, or the empty string: what is stored is
\* falsy either way and nothing is rendered for it)
OptimizerResponseTexts(request) == {EmptyString, <<"analysis", request.period>>}

\* the state after handleGenerateInsights has run to its return or to its await
OptimizerAfterGenerate(oi, data, type, cost) ==
    IF Len(data.filteredEntries) < 2
    THEN [oi EXCEPT !.error = OptimizerTooFewEntriesError]
    ELSE [oi EXCEPT
            !.isLoading = TRUE,
            !.error = EmptyString,
            !.aiInsights = EmptyString,
            !.request = [kind |-> "generateContent",
                         period |-> PromptPeriod(data, type),
                         stats |-> data.stats,
                         dataSummary |-> data.dailyData,
                         vehicleCostPerKm |-> cost]]

\* faulty variant: isLoading stays set after the request has settled
OptimizerAfterResponse_StillLoading(oi, ok, text) ==
    IF ok
    THEN [oi EXCEPT !.aiInsights = text]
    ELSE [oi EXCEPT !.error = OptimizerConnectionError]

\* the state after the awaited request has settled: setAiInsights(response.text)
\* when it is fulfilled, setError(...) when it is rejected, setIsLoading(false)
\* after either
OptimizerAfterResponse(oi, ok, text) ==
    IF ok
    THEN [oi EXCEPT !.aiInsights = text,
                    !.isLoading = FALSE,
                    !.request = null]
    ELSE [oi EXCEPT !.error = OptimizerConnectionError, !.isLoading = FALSE, !.request = null]

\* handleDateChange stops being followed MaxShiftDays days away from the clock
MaxShiftDays == 35

\* the entry dates of the performance runs lie within DateSpread days of a clock reading
DateSpread == 45

OptimizerDates ==
    {CivilFromDays(dn) : dn \in UNION {((t \div SecPerDay) - DateSpread)..((t \div SecPerDay) + DateSpread) :
                                        t \in NowChoices}}

\* two entries of the same date, or of two dates a week apart
SharedDateLists ==
    {<<Entry(1, d, 30000, 200, 8, 2000), Entry(2, e, 10000, 50, 0, 0)>> :
        d \in {<<2024, 1, 15>>, <<2024, 1, 31>>}, e \in {<<2024, 1, 15>>, <<2024, 1, 22>>}}

\* a store holding one entry, dated anywhere around the clock reading or not dated at all,
\* or two entries
OptimizerEntryLists ==
    {<<Entry(1, d, 30000, 200, 8, 2000)>> : d \in OptimizerDates \cup {NotADate}}
        \cup SharedDateLists


-----------------------------------------------------------------------------

(* PremiumView: the AI insights request *)

\* slice(0, 45): the entries summarised in the prompt
SummaryLimit == 45

\* getFilteredEntries: new Date(); setDate(getDate() - days); the time of day is kept
aiCutoffDate(t, days) == setDate(t, getDate(t) - days)

getFilteredEntries(es, r, t) ==
    IF r = "all"
    THEN es
    ELSE SelectSeq(es, LAMBDA e :
            DateGE(NewDateFromString(e.date), aiCutoffDate(t, IF r = "30d" THEN 30 ELSE 90)))

\* toLocaleDateString('pt-BR', {weekday, day, month}): the local weekday, day and month
toLocaleDateString(t) ==
    IF isNaN(t)
    THEN <<"Invalid Date">>
    ELSE <<getDay(t), getDate(t), getMonth(t) + 1>>

\* one line of dataSummary
InsightsSummaryRow(e, cost) ==
    [date |-> toLocaleDateString(NewDateFromString(e.date)),
     netProfit |-> e.totalEarnings - (e.kmDriven * cost) - e.additionalCosts,
     kmDriven |-> e.kmDriven,
     hoursWorked |-> e.hoursWorked]

InsightsDataSummary(filtered, cost) ==
    [i \in 1..(IF Len(filtered) < SummaryLimit THEN Len(filtered) ELSE SummaryLimit) |->
        InsightsSummaryRow(filtered[i], cost)]

\* JSON.stringify(filteredEntries) + aiDateRange
InsightsSnapshot(filtered, r) == <<filtered, r>>

\* the message of setError when fewer than three entries are selected
TooFewEntriesError(r) == <<"min3", r>>

\* the message of setError when the request fails
ConnectionError == <<"connection">>

\* response.text of a fulfilled request: an analysis, or no text at all (undefined,
\* or the empty string: what is stored is falsy either way and nothing is rendered
\* for it)
ResponseTexts == {EmptyString, <<"analysis">>}

\* the state after handleGenerateInsights has run to its return or to its await;
\* confirmed is the answer to window.confirm, asked when the data did not change
PremiumAfterGenerate(pv, es, cost, t, confirmed) ==
    IF Len(getFilteredEntries(es, pv.aiDateRange, t)) < 3
    THEN [pv EXCEPT !.error = TooFewEntriesError(pv.aiDateRange)]
    ELSE IF /\ pv.insights # EmptyString
            /\ InsightsSnapshot(getFilteredEntries(es, pv.aiDateRange, t), pv.aiDateRange)
                    = pv.lastAnalysisDataSnapshot
            /\ ~confirmed
         THEN [pv EXCEPT !.isLoading = FALSE, !.error = EmptyString]
         ELSE [pv EXCEPT
                !.isLoading = TRUE,
                !.error = EmptyString,
                !.insights = EmptyString,
                !.request =
                    [kind |-> "generateContent",
                     dataSummary |->
                        InsightsDataSummary(getFilteredEntries(es, pv.aiDateRange, t), cost),
                     currentSnapshot |->
                        InsightsSnapshot(getFilteredEntries(es, pv.aiDateRange, t),
                                         pv.aiDateRange)]]

\* the state after the awaited request has settled: setInsights(response.text) and
\* setLastAnalysisDataSnapshot(currentSnapshot) when it is fulfilled, setError(...)
\* when it is rejected, setIsLoading(false) after either
PremiumAfterResponse(pv, ok, text) ==
    IF ok
    THEN [pv EXCEPT !.insights = text,
                    !.lastAnalysisDataSnapshot = pv.request.currentSnapshot,
                    !.isLoading = FALSE,
                    !.request = null]
    ELSE [pv EXCEPT !.error = ConnectionError, !.isLoading = FALSE, !.request = null]

-----------------------------------------------------------------------------

(* The bucketing keys the reports assign to one entry date *)

\* no key: the entry is not processed yet (pending) or its date does not parse (skipped)
NoKeys(why) == [state |-> why, week |-> <<>>, month |-> <<>>, year |-> <<>>, dayIndex |-> 7]

\* every date string YYYY-MM-DD of the model's years that parses, "2021-02-30" included
ProbeDates == Years \X (1..12) \X (1..31)

\* GeneralReport periodData: date = new Date(entry.date); key = getGroupKey(date)
\* DayOfWeekAnalysis chartData: date = new Date(entry.date); dayIndex = date.getDay()
BucketKeys(dateString) ==
    LET date == NewDateFromString(dateString)
    IN  IF isNaN(date) THEN NoKeys("skipped")
        ELSE [state    |-> "assigned",
              week     |-> getWeekKey(date),
              month    |-> getMonthKey(date),
              year     |-> getYearKey(date),
              dayIndex |-> getDay(date)]


-----------------------------------------------------------------------------
(* The state machines *)

Views == {"calculator", "history", "settings", "premium"}

\* the calculator as useState leaves it on mount
CalculatorInitial ==
    /\ earnings = EmptyInput
    /\ kms = EmptyInput
    /\ hours = EmptyInput
    /\ costs = EmptyInput
    /\ dateInput = toISODate(now)
    /\ results = null

\* no summary and no edit form is open
HistoryInitial ==
    /\ viewingEntry = null
    /\ editingEntry = null
    /\ displayMemo = NoMemo

\* the calculator of the settings as useState leaves it on mount
SettingsCalcInitial ==
    [calcFuelPrice |-> <<>>, calcFuel |-> <<>>, calcKms |-> <<>>,
     calcExtras |-> <<"0", ".", "2", "0">>, calcResult |-> null]

\* the settings are not on screen
SettingsIdle ==
    /\ settingsCost = <<>>
    /\ isDeleteModalOpen = FALSE
    /\ settingsCalc = SettingsCalcInitial

\* no date is being bucketed
KeysIdle ==
    /\ probe = NotADate
    /\ keys = NoKeys("pending")

\* the report is not on screen
ReportIdle ==
    /\ period = "month"
    /\ periodData = [mounted |-> FALSE]
    /\ periodDeps = null

\* the day-of-week analysis is not on screen
DayOfWeekIdle ==
    /\ range = "all"
    /\ dayOfWeekData = [mounted |-> FALSE]

\* the performance view is not on screen
OptimizerIdle ==
    /\ periodType = "week"
    /\ currentDate = now
    /\ optimizerData = [mounted |-> FALSE]
    /\ optimizerInsights = OptimizerInsightsInitial

\* no permutation of the entries is being grouped
RegroupIdle == regrouped = [state |-> "idle"]

\* the service worker is not followed
WorkerIdle == serviceWorker = [installed |-> FALSE]

\* no two week computations are being compared
WeeksIdle == weeks = [state |-> "idle"]

\* nothing has been exported and nothing imported
BackupIdle ==
    /\ backup = [exported |-> FALSE]
    /\ importAttempt = [reading |-> <<>>, alert |-> "none"]

\* the toast as useState leaves it on mount
ToastHidden == toast = [message |-> EmptyString, show |-> FALSE]

\* showToast(message): setToast({ message, show: true })
showToast(message) == [message |-> message, show |-> TRUE]

\* no store operation has been called
NoCall == [op |-> "none"]

\* the store as the hook leaves it on mount
StoreUntouched ==
    /\ prevEntries = <<>>
    /\ lastCall = NoCall

\* type ActiveTool
Tools == {"ai-insights", "report", "data-tools", "day-of-week-analysis", "performance-analysis"}

\* selectedTool is null: the menu of the tools is on screen
NoTool == "null"

\* PremiumView as useState leaves it on mount
PremiumInitial ==
    [selectedTool |-> NoTool, aiDateRange |-> "30d", isLoading |-> FALSE, insights |-> EmptyString, error |-> EmptyString,
     lastAnalysisDataSnapshot |-> EmptyString, request |-> null]

\* no analysis has been asked for
InsightsIdle == premiumView = PremiumInitial

\* PremiumView after the tool was chosen in its menu
ToolOpened(tool) == [PremiumInitial EXCEPT !.selectedTool = tool]

\* the premium tools are on screen, the calculator and the history are not
PremiumOnScreen ==
    /\ currentView = "premium"
    /\ CalculatorInitial
    /\ HistoryInitial
    /\ SettingsIdle

(* SpecKeys: the bucketing helpers applied to every date string *)

InitKeys ==
    /\ tz \in TZOffsets
    /\ now = FirstNow
    /\ probe \in ProbeDates \cup {NotADate}
    /\ keys = NoKeys("pending")
    /\ entries = <<>>
    /\ vehicleCostPerKm = DefaultCost
    /\ PremiumOnScreen
    /\ ReportIdle
    /\ DayOfWeekIdle
    /\ OptimizerIdle
    /\ InsightsIdle
    /\ StoreUntouched
    /\ ToastHidden
    /\ BackupIdle
    /\ RegroupIdle
    /\ WorkerIdle
    /\ WeeksIdle

\* one pass of the reports' forEach body over an entry dated probe
AssignKeys ==
    /\ keys.state = "pending"
    /\ keys' = BucketKeys(probe)
    /\ UNCHANGED <<tz, sideVars, toast, backupVars, now, probe, storeVars, currentView, calculatorVars, viewingEntry, formVars,
                   reportVars, dayOfWeekVars, optimizerVars, premiumView>>

NextKeys == AssignKeys

SpecKeys == InitKeys /\ [][NextKeys]_vars

(* SpecReport: the general report over the stored entries *)

\* the store as loaded from localStorage, the report mounted with its default period
InitReport ==
    /\ tz \in TZOffsets
    /\ now = FirstNow
    /\ entries \in StoredEntryLists \cup PermutedEntryLists
    /\ vehicleCostPerKm \in CostChoices
    /\ period = "month"
    /\ periodData = ComputePeriodData(entries, vehicleCostPerKm, period)
    /\ periodDeps = periodDataDeps(entries, vehicleCostPerKm, period)
    /\ PremiumOnScreen
    /\ KeysIdle
    /\ DayOfWeekIdle
    /\ OptimizerIdle
    /\ premiumView = ToolOpened("report")
    /\ StoreUntouched
    /\ ToastHidden
    /\ BackupIdle
    /\ RegroupIdle
    /\ WorkerIdle
    /\ WeeksIdle

\* onClick of a period tab: setPeriod(tab.id), and the memo recomputes; under three
\* entries the report shows its message in place of the tabs
setPeriod(p) ==
    /\ periodData.mounted
    /\ Len(entries) >= 3
    /\ p # period
    /\ period' = p
    /\ periodData' = useMemoPeriodData(periodData, periodDeps, entries, vehicleCostPerKm, p)
    /\ periodDeps' = periodDataDeps(entries, vehicleCostPerKm, p)
    /\ UNCHANGED <<tz, sideVars, toast, backupVars, now, storeVars, currentView, calculatorVars, viewingEntry, formVars, keyVars,
                   dayOfWeekVars, optimizerVars, premiumView>>

NextReport == \E p \in Periods : setPeriod(p)

SpecReport == InitReport /\ [][NextReport]_vars

(* SpecMetrics: the calculator and the history summary *)

InitMetrics ==
    /\ tz \in TZOffsets
    /\ now \in NowChoices
    /\ entries \in HistoryLists
    /\ vehicleCostPerKm \in CostChoices
    /\ currentView = "calculator"
    /\ CalculatorInitial
    /\ HistoryInitial
    /\ SettingsIdle
    /\ KeysIdle
    /\ ReportIdle
    /\ DayOfWeekIdle
    /\ OptimizerIdle
    /\ InsightsIdle
    /\ StoreUntouched
    /\ ToastHidden
    /\ BackupIdle
    /\ RegroupIdle
    /\ WorkerIdle
    /\ WeeksIdle

\* the inputs are on screen while there is no result
FormOnScreen == currentView = "calculator" /\ results = null

\* every variable but the calculator's
NotCalculator == <<tz, sideVars, toast, backupVars, now, storeVars, currentView, viewingEntry, formVars, keyVars, reportVars,
                   dayOfWeekVars, optimizerVars, premiumView>>

setEarnings(v) ==
    /\ FormOnScreen
    /\ earnings' = v
    /\ UNCHANGED <<kms, hours, costs, dateInput, results, NotCalculator>>

setKms(v) ==
    /\ FormOnScreen
    /\ kms' = v
    /\ UNCHANGED <<earnings, hours, costs, dateInput, results, NotCalculator>>

setHours(v) ==
    /\ FormOnScreen
    /\ hours' = v
    /\ UNCHANGED <<earnings, kms, costs, dateInput, results, NotCalculator>>

setCosts(v) ==
    /\ FormOnScreen
    /\ costs' = v
    /\ UNCHANGED <<earnings, kms, hours, dateInput, results, NotCalculator>>

\* onClick of 'Calcular Lucro'
calculateMetrics ==
    /\ FormOnScreen
    /\ results' = ResultsAfterCalculate(results, ParseFloatOrZero(earnings), ParseFloatOrZero(kms),
                                        ParseFloatOrZero(hours), ParseFloatOrZero(costs),
                                        vehicleCostPerKm)
    /\ UNCHANGED <<earnings, kms, hours, costs, dateInput, NotCalculator>>

\* onClick of 'Novo Calculo'
resetForm ==
    /\ currentView = "calculator"
    /\ results # null
    /\ earnings' = EmptyInput
    /\ kms' = EmptyInput
    /\ hours' = EmptyInput
    /\ costs' = EmptyInput
    /\ dateInput' = toISODate(now)
    /\ results' = null
    /\ UNCHANGED NotCalculator

(* useGanhosProStore: an operation is the store's part of the step of the handler
   that calls it *)

addEntry(newEntryData) ==
    /\ prevEntries' = entries
    /\ entries' = EntriesAfterAdd(entries, newEntryData, now)
    /\ lastCall' = [op |-> "addEntry", arg |-> newEntryData, cost |-> vehicleCostPerKm]
    /\ UNCHANGED vehicleCostPerKm

updateEntry(updatedEntry) ==
    /\ prevEntries' = entries
    /\ entries' = EntriesAfterUpdate(entries, updatedEntry)
    /\ lastCall' = [op |-> "updateEntry", arg |-> updatedEntry, cost |-> vehicleCostPerKm]
    /\ UNCHANGED vehicleCostPerKm

deleteEntry(id) ==
    /\ prevEntries' = entries
    /\ entries' = EntriesAfterDelete(entries, id)
    /\ lastCall' = [op |-> "deleteEntry", arg |-> id, cost |-> vehicleCostPerKm]
    /\ UNCHANGED vehicleCostPerKm

setVehicleCostPerKm(cost) ==
    /\ vehicleCostPerKm' = cost
    /\ lastCall' = [op |-> "setVehicleCostPerKm", arg |-> cost, cost |-> vehicleCostPerKm]
    /\ UNCHANGED <<entries, prevEntries>>

(* HistoryView: the summary and the edit form of an entry *)

\* the message of handleSaveEdit's toast
UpdatedMessage == <<"Registro atualizado com sucesso!">>

\* every variable but the history's, the store's and the toast
NotHistory == <<tz, sideVars, backupVars, now, currentView, calculatorVars, settingsCost, isDeleteModalOpen,
                settingsCalc, keyVars,
                reportVars, dayOfWeekVars, optimizerVars, premiumView>>

\* the rows and both modals are rendered: with an empty store HistoryView returns
\* the 'Histórico Vazio' message before them
HistoryOnScreen ==
    /\ currentView = "history"
    /\ Len(entries) > 0

\* onClick of a row of the recent history
setViewingEntry(entry) ==
    /\ HistoryOnScreen
    /\ viewingEntry' = entry
    /\ UNCHANGED <<editingEntry, displayMemo, storeVars, toast, NotHistory>>

\* onClose of the summary
closeSummary ==
    /\ HistoryOnScreen
    /\ viewingEntry # null
    /\ viewingEntry' = null
    /\ UNCHANGED <<editingEntry, displayMemo, storeVars, toast, NotHistory>>

\* onEdit of the summary: handleEditRequest(entry)
handleEditRequest ==
    /\ HistoryOnScreen
    /\ viewingEntry # null
    /\ viewingEntry' = null
    /\ editingEntry' = viewingEntry
    /\ UNCHANGED <<displayMemo, storeVars, toast, NotHistory>>

\* onClose of the edit form
closeEdit ==
    /\ HistoryOnScreen
    /\ editingEntry # null
    /\ editingEntry' = null
    /\ UNCHANGED <<viewingEntry, displayMemo, storeVars, toast, NotHistory>>

\* onSave of the edit form: handleSaveEdit(formData), formData being the entry
\* edited with its number fields as typed
handleSaveEdit(updatedEntry) ==
    /\ HistoryOnScreen
    /\ editingEntry # null
    /\ updatedEntry.id = editingEntry.id
    /\ updatedEntry.date = editingEntry.date
    /\ updateEntry(updatedEntry)
    /\ toast' = showToast(UpdatedMessage)
    /\ editingEntry' = null
    /\ displayMemo' = MemoRunAt(now)
    /\ UNCHANGED <<viewingEntry, NotHistory>>

\* onDelete of the summary, once window.confirm is answered with yes:
\* handleDeleteRequest(entry.id)
handleDeleteRequest(id) ==
    /\ HistoryOnScreen
    /\ viewingEntry # null
    /\ id = viewingEntry.id
    /\ deleteEntry(id)
    /\ viewingEntry' = null
    /\ displayMemo' = MemoRunAt(now)
    /\ UNCHANGED <<editingEntry, toast, NotHistory>>

(* SettingsView: the cost field and the cost calculator *)

\* the message of the settings' handleSave
CostSavedMessage == <<"Custo por KM salvo com sucesso!">>

\* a character is a decimal digit
IsDigit(c) == \E i \in 1..10 : DigitChars[i] = c

\* the number a decimal digit is
DigitValue(c) == (CHOOSE i \in 1..10 : DigitChars[i] = c) - 1

\* the digits a string starts with
LeadingDigits(s) ==
    SubSeq(s, 1, CHOOSE n \in 0..Len(s) :
                    /\ \A i \in 1..n : IsDigit(s[i])
                    /\ n = Len(s) \/ ~IsDigit(s[n + 1]))

RECURSIVE DigitsToNumber(_)
\* the number a string of digits spells
DigitsToNumber(d) ==
    IF d = <<>> THEN 0 ELSE DigitsToNumber(SubSeq(d, 1, Len(d) - 1)) * 10 + DigitValue(d[Len(d)])

\* Number.prototype.toString() of an integer
IntegerToString(n) == IF n < 0 THEN <<"-">> \o NumToString(0 - n) ELSE NumToString(n)

\* String.prototype.padStart(targetLength, padString) for a padString of one character
PadStart(s, targetLength, padString) ==
    IF Len(s) >= targetLength THEN s
    ELSE [i \in 1..(targetLength - Len(s)) |-> padString] \o s

\* str.replace(',', '.'): the first comma becomes a point
ReplaceComma(str) ==
    LET commas == {i \in 1..Len(str) : str[i] = ","}
    IN  IF commas = {} THEN str
        ELSE [str EXCEPT ![CHOOSE i \in commas : \A j \in commas : i <= j] = "."]

\* the white space parseFloat skips, as far as a string of the model writes it
WhiteSpace == {" ", "\t", "\n", "\f", "\r"}

RECURSIVE TrimStart(_)
\* the string without the white space it starts with
TrimStart(str) == IF str # <<>> /\ str[1] \in WhiteSpace THEN TrimStart(Tail(str)) ELSE str

\* str starts with prefix
StartsWith(str, prefix) == Len(str) >= Len(prefix) /\ SubSeq(str, 1, Len(prefix)) = prefix

InfinityString == <<"I", "n", "f", "i", "n", "i", "t", "y">>

\* the digits without the zeros they begin with
WithoutLeadingZeros(digits) ==
    LET first == CHOOSE i \in 1..(Len(digits) + 1) :
                    /\ \A j \in 1..(i - 1) : digits[j] = "0"
                    /\ i <= Len(digits) => digits[i] # "0"
    IN  SubSeq(digits, first, Len(digits))

RECURSIVE NatOfDigitsFrom(_, _, _, _)
\* the natural number spelt by the digits of acc followed by digits[lo] to
\* digits[hi]: four digits at once, more by halves
NatOfDigitsFrom(digits, lo, hi, acc) ==
    IF hi - lo < 4
    THEN NatMulSmallFrom(acc, 10^(hi - lo + 1), 1, DigitsToNumber(SubSeq(digits, lo, hi)))
    ELSE CHOOSE n \in
            { NatOfDigitsFrom(digits, lo + (hi - lo) \div 2 + 1, hi, front) :
                front \in {NatOfDigitsFrom(digits, lo, lo + (hi - lo) \div 2, acc)} } : TRUE

\* the natural number the digits spell
NatOfDigits(digits) ==
    NatTrim(NatOfDigitsFrom(WithoutLeadingZeros(digits), 1,
                            Len(WithoutLeadingZeros(digits)), <<>>))

RECURSIVE NatTimesPow5(_, _)
\* a * 5^k: 5^6 and less is a single digit of a natural number, more goes by halves
NatTimesPow5(a, k) ==
    IF k <= 6 THEN NatMulSmallFrom(a, 5^k, 1, 0)
    ELSE CHOOSE product \in
            { NatTimesPow5(half, k - k \div 2) : half \in {NatTimesPow5(a, k \div 2)} } : TRUE

RECURSIVE NatDivSmallBetween(_, _, _, _, _)
\* the quotient of digits lo to hi of a by the small number d, and the remainder,
\* given the remainder r left by the digits above hi: four digits at once, more
\* by halves
NatDivSmallBetween(a, d, lo, hi, r) ==
    IF hi - lo < 4 THEN NatDivSmallFrom(SubSeq(a, lo, hi), d, hi - lo + 1, r)
    ELSE CHOOSE result \in
            UNION { { [quotient  |-> low.quotient \o high.quotient,
                       remainder |-> low.remainder] :
                        low \in {NatDivSmallBetween(a, d, lo, lo + (hi - lo) \div 2,
                                                    high.remainder)} } :
                    high \in {NatDivSmallBetween(a, d, lo + (hi - lo) \div 2 + 1, hi, r)} } : TRUE

RECURSIVE NatOverPow5(_, _, _)
\* the integer part of a / 5^k, and whether anything is left over, given
\* whether anything was
NatOverPow5(a, k, inexact) ==
    CHOOSE result \in
        IF k <= 6
        THEN { [quotient |-> NatTrim(q.quotient), inexact |-> inexact \/ q.remainder # 0] :
                q \in {NatDivSmallBetween(a, 5^k, 1, Len(a), 0)} }
        ELSE { NatOverPow5(half.quotient, k - k \div 2, half.inexact) :
                half \in {NatOverPow5(a, k \div 2, inexact)} } : TRUE

RECURSIVE NatDecimalSteps(_, _)
\* the last 4 * steps decimal digits of a natural number, and the natural number
\* that the digits before them spell: four digits at once, more by halves
NatDecimalSteps(a, steps) ==
    CHOOSE result \in
        IF steps = 1
        THEN { [rest   |-> NatTrim(q.quotient),
                digits |-> PadStart(NumToString(q.remainder), 4, "0")] :
                q \in {NatDivSmallBetween(a, 10^4, 1, Len(a), 0)} }
        ELSE UNION { { [rest |-> high.rest, digits |-> high.digits \o low.digits] :
                        high \in {NatDecimalSteps(low.rest, steps - steps \div 2)} } :
                     low \in {NatDecimalSteps(a, steps \div 2)} } : TRUE

\* the decimal digits of a natural number, none for 0: it has at most one
\* decimal digit to three binary ones, and one more
NatDecimal(a) ==
    WithoutLeadingZeros(NatDecimalSteps(a, NatBitLength(a) \div 12 + 1).digits)

\* a decimal exponent beyond this one makes every decimal 0 or an infinity
ExponentCap == 10^6

\* the number an exponent's digits spell, ExponentCap when it is more
ExponentValue(digits) ==
    IF Len(WithoutLeadingZeros(digits)) > 6 THEN ExponentCap
    ELSE DigitsToNumber(WithoutLeadingZeros(digits))

\* the exponent a decimal literal ends with: e or E, a sign or none, and digits;
\* 0 when str does not start with one
ExponentPart(str) ==
    IF str = <<>> \/ str[1] \notin {"e", "E"} THEN 0
    ELSE LET signed == Len(str) >= 2 /\ str[2] \in {"-", "+"}
             digits == LeadingDigits(SubSeq(str, IF signed THEN 3 ELSE 2, Len(str)))
         IN  IF digits = <<>> THEN 0
             ELSE IF signed /\ str[2] = "-" THEN 0 - ExponentValue(digits)
             ELSE ExponentValue(digits)

\* the number nearest to n / 10^k: the quotient of n * 2^by by 5^k is worked out
\* to two binary digits more than are kept, 5^k having fewer than 3 * k of them
DecimalQuotient(neg, n, k) ==
    LET by == SignificandBits + 2 + 3 * k
    IN  CHOOSE nearest \in
            { FloatRound(neg, result.quotient, 0 - by - k, result.inexact) :
                result \in {NatOverPow5(NatShiftLeft(n, by), k, FALSE)} } : TRUE

\* the number nearest to digits * 10^scale
DecimalToFloat(neg, digits, scale) ==
    CHOOSE nearest \in
        { IF significant = <<>> THEN [neg |-> neg, mant |-> <<>>, exp |-> 0]
          ELSE IF Len(significant) + scale > 310 THEN FloatInfinity(neg)
          ELSE IF Len(significant) + scale < 0 - 325 THEN [neg |-> neg, mant |-> <<>>, exp |-> 0]
          ELSE IF scale >= 0
          THEN FloatRound(neg, NatTimesPow5(NatOfDigits(significant), scale), scale, FALSE)
          ELSE DecimalQuotient(neg, NatOfDigits(significant), 0 - scale) :
            significant \in {WithoutLeadingZeros(digits)} } : TRUE

\* parseFloat(str): white space is skipped, then a sign, then Infinity or the
\* longest decimal literal is read: digits, a point and digits, and an exponent;
\* NaN when there is no digit before or after the point
ParseFloat(str) ==
    CHOOSE number \in
        { LET signed   == trimmed # <<>> /\ trimmed[1] \in {"-", "+"}
              neg      == signed /\ trimmed[1] = "-"
              body     == IF signed THEN Tail(trimmed) ELSE trimmed
              whole    == LeadingDigits(body)
              rest     == SubSeq(body, Len(whole) + 1, Len(body))
              point    == rest # <<>> /\ rest[1] = "."
              decimals == IF point THEN LeadingDigits(Tail(rest)) ELSE <<>>
              after    == IF point THEN SubSeq(rest, Len(decimals) + 2, Len(rest)) ELSE rest
          IN  IF StartsWith(body, InfinityString) THEN FloatInfinity(neg)
              ELSE IF whole = <<>> /\ decimals = <<>> THEN FloatNaN
              ELSE CHOOSE nearest \in
                      { DecimalToFloat(neg, digits, scale) :
                          digits \in {whole \o decimals},
                          scale \in {ExponentPart(after) - Len(decimals)} } : TRUE :
            trimmed \in {TrimStart(str)} } : TRUE

\* the decimals of k digits and zeros that are next to the whole number of these
\* digits, below it and above it
ShortDecimals(digits, k) ==
    LET zeros == [i \in 1..(Len(digits) - k) |-> "0"]
        below == SubSeq(digits, 1, k)
    IN  {below \o zeros, NatDecimal(NatAdd(NatOfDigits(below), <<1>>)) \o zeros}

\* the nearest to the whole number of these digits of the decimals of k digits
\* and zeros in fits, one or the two next to it: the one of an even last digit
\* when they are as near
NearestDecimal(digits, k, fits) ==
    LET left   == SubSeq(digits, k + 1, Len(digits))
        midway == left # <<>> /\ left[1] = "5" /\ \A j \in 2..Len(left) : left[j] = "0"
        lower  == IF midway THEN DigitValue(digits[k]) % 2 = 0
                  ELSE left = <<>> \/ DigitValue(left[1]) < 5
    IN  IF Cardinality(fits) = 1 THEN CHOOSE c \in fits : TRUE
        ELSE CHOOSE c \in fits : lower = (SubSeq(c, 1, k) = SubSeq(digits, 1, k)
                                           /\ Len(c) = Len(digits))

RECURSIVE ShortestDecimalFrom(_, _, _)
\* the same for the fewest digits that are k or more
ShortestDecimalFrom(x, digits, k) ==
    CHOOSE shortest \in
        { IF fits = {} THEN ShortestDecimalFrom(x, digits, k + 1)
          ELSE NearestDecimal(digits, k, fits) :
            fits \in { {c \in ShortDecimals(digits, k) :
                           FloatRound(FALSE, NatOfDigits(c), 0, FALSE) = x} } } : TRUE

\* the digits of s * 10^(n - k) of Number::toString for the whole number x of
\* these digits, x not negative: the decimal of the fewest digits k that x is the
\* number nearest to, the nearest to x of those, the one of an even s of two as near
ShortestDecimal(x, digits) == ShortestDecimalFrom(x, digits, 1)

\* the digits without the zeros they end with
WithoutTrailingZeros(digits) ==
    LET last == CHOOSE i \in 0..Len(digits) :
                    /\ \A j \in (i + 1)..Len(digits) : digits[j] = "0"
                    /\ i >= 1 => digits[i] # "0"
    IN  SubSeq(digits, 1, last)

\* the digits of s, a point after the first when there are more, e+ and n - 1
ExponentialString(digits) ==
    LET s == WithoutTrailingZeros(digits)
    IN  <<s[1]>> \o (IF Len(s) > 1 THEN <<".">> \o Tail(s) ELSE <<>>)
            \o <<"e", "+">> \o NumToString(Len(digits) - 1)

\* Number.prototype.toString() of what Math.round returns: NaN, an infinity, a
\* zero (0 for either) or a whole number, written with all its digits when they
\* are 21 or fewer and with an exponent when they are more
NumberToString(x) ==
    CHOOSE str \in
        UNION { IF IsNaNNumber(v) THEN {<<"N", "a", "N">>}
                ELSE IF IsInfinite(v) THEN {(IF v.neg THEN <<"-">> ELSE <<>>) \o InfinityString}
                ELSE IF v.mant = <<>> THEN {<<"0">>}
                ELSE { (IF v.neg THEN <<"-">> ELSE <<>>)
                         \o (IF Len(digits) <= 21 THEN digits ELSE ExponentialString(digits)) :
                        digits \in
                            UNION { { IF v.exp <= 0 THEN all
                                      ELSE ShortestDecimal([v EXCEPT !.neg = FALSE], all) :
                                        all \in {NatDecimal(whole)} } :
                                    whole \in {IF v.exp >= 0 THEN NatShiftLeft(v.mant, v.exp)
                                               ELSE NatShiftRight(v.mant, 0 - v.exp)} } } :
                v \in {x} } : TRUE

\* parseInt(str, 10).toString(): white space is skipped, then a sign, then the
\* digits the text goes on with are read as a number, NaN when there are none
ParseIntToString(str) ==
    CHOOSE written \in
        UNION { { IF digits = <<>> THEN <<"N", "a", "N">>
                  ELSE NumberToString(DecimalToFloat(trimmed[1] = "-", digits, 0)) :
                    digits \in { LeadingDigits(IF trimmed # <<>> /\ trimmed[1] \in {"-", "+"}
                                               THEN Tail(trimmed) ELSE trimmed) } } :
                trimmed \in {TrimStart(str)} } : TRUE

\* formatBRLMask(digitsOnly): '' for the empty string; else the string padded to
\* three characters, the integer part (all but the last two characters) through
\* parseInt, a comma and the last two characters
formatBRLMask(digitsOnly) ==
    CHOOSE masked \in
        { IF text = <<>> THEN <<>>
          ELSE LET paddedValue == PadStart(text, 3, "0")
                   integerPart == SubSeq(paddedValue, 1, Len(paddedValue) - 2)
                   decimalPart == SubSeq(paddedValue, Len(paddedValue) - 1, Len(paddedValue))
               IN  ParseIntToString(integerPart) \o <<",">> \o decimalPart :
            text \in {digitsOnly} } : TRUE

\* parseFloat(cost.replace(',', '.'))
ParseCost(text) == ParseFloat(ReplaceComma(text))

\* useState(() => formatBRLMask(Math.round(vehicleCostPerKm * 100).toString()))
SettingsCostOnMount(cost) == formatBRLMask(IntegerToString(cost))

\* every variable but the settings', the store's and the toast
NotSettings == <<tz, sideVars, backupVars, now, currentView, calculatorVars, viewingEntry,
                 editingEntry, displayMemo, keyVars, reportVars, dayOfWeekVars, optimizerVars, premiumView>>

\* onChange of the cost field: digitsOnly = e.target.value.replace(/\D/g, ''),
\* setCost(formatBRLMask(digitsOnly))
handleCostChange(value) ==
    /\ currentView = "settings"
    /\ settingsCost' = formatBRLMask(SelectSeq(value, IsDigit))
    /\ UNCHANGED <<isDeleteModalOpen, settingsCalc, storeVars, toast, NotSettings>>

\* onClick of 'Salvar Custo', the settings' handleSave: a cost that parses and is
\* not negative is stored and a toast shown, else an alert is raised
handleSaveCost ==
    /\ currentView = "settings"
    /\ \E newCost \in {ParseCost(settingsCost)} :
            IF ~IsNaNNumber(newCost) /\ ~FloatGreater(FloatZero, newCost)
            THEN /\ setVehicleCostPerKm(CentavosOf(newCost))
                 /\ toast' = showToast(CostSavedMessage)
            ELSE UNCHANGED <<storeVars, toast>>
    /\ UNCHANGED <<settingsCost, isDeleteModalOpen, settingsCalc, NotSettings>>

\* onChange of a field of the calculator: setCalcFuelPrice, setCalcFuel, setCalcKms
\* or setCalcExtras with e.target.value
setCalcField(field, value) ==
    /\ currentView = "settings"
    /\ field \in {"calcFuelPrice", "calcFuel", "calcKms", "calcExtras"}
    /\ value # settingsCalc[field]
    /\ settingsCalc' = [settingsCalc EXCEPT ![field] = value]
    /\ UNCHANGED <<settingsCost, isDeleteModalOpen, storeVars, toast, NotSettings>>

\* { totalCost, consumption } of handleCalculate for the four numbers parsed:
\* liters = total / price, consumption = kms / liters,
\* fuelCostPerKm = total / kms, totalCost = fuelCostPerKm + extras
CalcResult(price, total, km, extras) ==
    [totalCost   |-> FloatAdd(FloatDiv(total, km), extras),
     consumption |-> FloatDiv(km, FloatDiv(total, price))]

\* onClick of 'Calcular': an alert when a field does not parse or when the
\* kilometres or the price are not above zero, else setCalcResult
handleCalculate ==
    /\ currentView = "settings"
    /\ \E price  \in {ParseFloat(ReplaceComma(settingsCalc.calcFuelPrice))},
          total  \in {ParseFloat(ReplaceComma(settingsCalc.calcFuel))},
          km     \in {ParseFloat(ReplaceComma(settingsCalc.calcKms))},
          extras \in {ParseFloat(ReplaceComma(settingsCalc.calcExtras))} :
            IF \/ IsNaNNumber(price) \/ IsNaNNumber(total)
               \/ IsNaNNumber(km) \/ IsNaNNumber(extras)
               \/ ~FloatGreater(km, FloatZero) \/ ~FloatGreater(price, FloatZero)
            THEN UNCHANGED settingsCalc
            ELSE settingsCalc' =
                    [settingsCalc EXCEPT !.calcResult = CalcResult(price, total, km, extras)]
    /\ UNCHANGED <<settingsCost, isDeleteModalOpen, storeVars, toast, NotSettings>>

\* onClick of 'Usar este Valor', rendered while there is a result: the result in
\* centavos, rounded, goes through the mask into the cost field and the result is
\* cleared
handleUseCalculatedValue ==
    /\ currentView = "settings"
    /\ settingsCalc.calcResult # null
    /\ \E centsAsString \in
            { NumberToString(MathRound(FloatMul(settingsCalc.calcResult.totalCost,
                                                FloatOfInt(100)))) } :
            settingsCost' = formatBRLMask(centsAsString)
    /\ settingsCalc' = [settingsCalc EXCEPT !.calcResult = null]
    /\ UNCHANGED <<isDeleteModalOpen, storeVars, toast, NotSettings>>

\* onClick of 'Apagar Registros Antigos': setIsDeleteModalOpen(true)
openDeleteModal ==
    /\ currentView = "settings"
    /\ ~isDeleteModalOpen
    /\ isDeleteModalOpen' = TRUE
    /\ UNCHANGED <<settingsCost, settingsCalc, storeVars, toast, NotSettings>>

\* onClick of the backdrop or of 'Cancelar': setIsDeleteModalOpen(false)
closeDeleteModal ==
    /\ currentView = "settings"
    /\ isDeleteModalOpen
    /\ isDeleteModalOpen' = FALSE
    /\ UNCHANGED <<settingsCost, settingsCalc, storeVars, toast, NotSettings>>

\* onClick of 'Confirmar e Apagar': the cutoff date is computed and
\* deleteOldEntries(cutoffDate) is called; the store returned by the hook has no
\* deleteOldEntries, the call throws a TypeError and the handler ends there: no
\* toast is shown and the dialog stays open
handleConfirmDeleteOldEntries ==
    /\ currentView = "settings"
    /\ isDeleteModalOpen
    /\ UNCHANGED vars

\* the bottom navigation: the view left is unmounted with the tools it shows, the
\* view entered mounts afresh
setCurrentView(view) ==
    /\ view # currentView
    /\ currentView' = view
    /\ earnings' = EmptyInput
    /\ kms' = EmptyInput
    /\ hours' = EmptyInput
    /\ costs' = EmptyInput
    /\ dateInput' = toISODate(now)
    /\ results' = null
    /\ viewingEntry' = null
    /\ editingEntry' = null
    /\ displayMemo' = IF view = "history" THEN MemoRunAt(now) ELSE NoMemo
    /\ settingsCost' = IF view = "settings" THEN SettingsCostOnMount(vehicleCostPerKm) ELSE <<>>
    /\ isDeleteModalOpen' = FALSE
    /\ settingsCalc' = SettingsCalcInitial
    /\ period' = "month"
    /\ periodData' = [mounted |-> FALSE]
    /\ periodDeps' = null
    /\ range' = "all"
    /\ dayOfWeekData' = [mounted |-> FALSE]
    /\ periodType' = "week"
    /\ currentDate' = IF optimizerData.mounted THEN now ELSE currentDate
    /\ optimizerData' = [mounted |-> FALSE]
    /\ optimizerInsights' = OptimizerInsightsInitial
    /\ premiumView' = PremiumInitial
    /\ UNCHANGED <<tz, sideVars, toast, backupVars, now, storeVars, keyVars>>

\* onClick of a tool of the menu: setSelectedTool(tool.id); the tool's component
\* mounts and computes its data from the store
setSelectedTool(tool) ==
    /\ currentView = "premium"
    /\ premiumView.selectedTool = NoTool
    /\ tool \in Tools
    /\ premiumView' = [premiumView EXCEPT !.selectedTool = tool]
    /\ period' = "month"
    /\ periodData' = IF tool = "report"
                     THEN ComputePeriodData(entries, vehicleCostPerKm, "month")
                     ELSE [mounted |-> FALSE]
    /\ periodDeps' = IF tool = "report"
                     THEN periodDataDeps(entries, vehicleCostPerKm, "month")
                     ELSE null
    /\ range' = "all"
    /\ dayOfWeekData' = IF tool = "day-of-week-analysis"
                        THEN ComputeDayOfWeekData(entries, vehicleCostPerKm, "all", now)
                        ELSE [mounted |-> FALSE]
    /\ periodType' = "week"
    /\ currentDate' = IF tool = "performance-analysis" THEN now ELSE currentDate
    /\ optimizerData' = IF tool = "performance-analysis"
                        THEN ComputeOptimizerData(entries, vehicleCostPerKm, "week", now)
                        ELSE [mounted |-> FALSE]
    /\ optimizerInsights' = OptimizerInsightsInitial
    /\ UNCHANGED <<tz, sideVars, toast, backupVars, now, storeVars, currentView, calculatorVars,
                   viewingEntry, formVars, keyVars>>

\* onClick of 'Voltar': setSelectedTool(null); the tool's component unmounts and
\* its state is dropped, the state of PremiumView stays
closeSelectedTool ==
    /\ currentView = "premium"
    /\ premiumView.selectedTool # NoTool
    /\ premiumView' = [premiumView EXCEPT !.selectedTool = NoTool]
    /\ period' = "month"
    /\ periodData' = [mounted |-> FALSE]
    /\ periodDeps' = null
    /\ range' = "all"
    /\ dayOfWeekData' = [mounted |-> FALSE]
    /\ periodType' = "week"
    /\ currentDate' = IF optimizerData.mounted THEN now ELSE currentDate
    /\ optimizerData' = [mounted |-> FALSE]
    /\ optimizerInsights' = OptimizerInsightsInitial
    /\ UNCHANGED <<tz, sideVars, toast, backupVars, now, storeVars, currentView, calculatorVars,
                   viewingEntry, formVars, keyVars>>

NextMetrics ==
    \/ \E v \in EarningsInputs : setEarnings(v)
    \/ \E v \in KmsInputs : setKms(v)
    \/ \E v \in HoursInputs : setHours(v)
    \/ \E v \in CostsInputs : setCosts(v)
    \/ calculateMetrics
    \/ resetForm
    \/ \E j \in 1..Len(displayedEntries) : setViewingEntry(displayedEntries[j])
    \/ closeSummary
    \/ \E view \in {"calculator", "history"} : setCurrentView(view)

SpecMetrics == InitMetrics /\ [][NextMetrics]_vars

(* SpecDayOfWeek: the day-of-week analysis over the stored entries *)

InitDayOfWeek ==
    /\ tz \in TZOffsets
    /\ now \in NowChoices
    /\ entries \in StoredEntryLists
    /\ vehicleCostPerKm \in CostChoices
    /\ range = "all"
    /\ dayOfWeekData = ComputeDayOfWeekData(entries, vehicleCostPerKm, range, now)
    /\ PremiumOnScreen
    /\ KeysIdle
    /\ ReportIdle
    /\ OptimizerIdle
    /\ premiumView = ToolOpened("day-of-week-analysis")
    /\ StoreUntouched
    /\ ToastHidden
    /\ BackupIdle
    /\ RegroupIdle
    /\ WorkerIdle
    /\ WeeksIdle

\* onClick of a range tab; the tabs are rendered when the store holds three entries or
\* more and the displayed range is not empty
setRange(r) ==
    /\ dayOfWeekData.mounted
    /\ Len(entries) >= 3
    /\ Len(dayOfWeekData.filteredEntries) # 0
    /\ r # range
    /\ range' = r
    /\ dayOfWeekData' = ComputeDayOfWeekData(entries, vehicleCostPerKm, r, now)
    /\ UNCHANGED <<tz, sideVars, toast, backupVars, now, storeVars, currentView, calculatorVars, viewingEntry, formVars, keyVars,
                   reportVars, optimizerVars, premiumView>>

NextDayOfWeek == \E r \in DateRanges : setRange(r)

SpecDayOfWeek == InitDayOfWeek /\ [][NextDayOfWeek]_vars

(* SpecOptimizer: the performance view over a store of one or two entries *)

InitOptimizer ==
    /\ tz \in TZOffsets
    /\ now \in NowChoices
    /\ entries \in OptimizerEntryLists
    /\ vehicleCostPerKm = DefaultCost
    /\ periodType = "week"
    /\ currentDate = now
    /\ optimizerData = ComputeOptimizerData(entries, vehicleCostPerKm, periodType, currentDate)
    /\ optimizerInsights = OptimizerInsightsInitial
    /\ PremiumOnScreen
    /\ KeysIdle
    /\ ReportIdle
    /\ DayOfWeekIdle
    /\ premiumView = ToolOpened("performance-analysis")
    /\ StoreUntouched
    /\ ToastHidden
    /\ BackupIdle
    /\ RegroupIdle
    /\ WorkerIdle
    /\ WeeksIdle

\* onClick of the previous / next arrow
handleDateChange(direction) ==
    /\ optimizerData.mounted
    /\ ShiftedDate(currentDate, periodType, direction) - now <= MaxShiftDays * SecPerDay
    /\ now - ShiftedDate(currentDate, periodType, direction) <= MaxShiftDays * SecPerDay
    /\ currentDate' = DateAfterRange(ShiftedDate(currentDate, periodType, direction))
    /\ optimizerData' = ComputeOptimizerData(entries, vehicleCostPerKm, periodType, currentDate')
    /\ optimizerInsights' = [optimizerInsights EXCEPT !.aiInsights = EmptyString,
                                                      !.error = EmptyString]
    /\ UNCHANGED <<tz, sideVars, toast, backupVars, now, storeVars, currentView, calculatorVars, viewingEntry, formVars, keyVars,
                   reportVars, dayOfWeekVars, periodType, premiumView>>

\* onClick of the week / month tab: setPeriodType(type); setCurrentDate(new Date())
setPeriodType(type) ==
    /\ optimizerData.mounted
    /\ periodType' = type
    /\ currentDate' = DateAfterRange(now)
    /\ optimizerData' = ComputeOptimizerData(entries, vehicleCostPerKm, type, now)
    /\ optimizerInsights' = [optimizerInsights EXCEPT !.aiInsights = EmptyString,
                                                      !.error = EmptyString]
    /\ UNCHANGED <<tz, sideVars, toast, backupVars, now, storeVars, currentView, calculatorVars, viewingEntry, formVars, keyVars,
                   reportVars, dayOfWeekVars, premiumView>>

NextOptimizer ==
    \/ \E direction \in Directions : handleDateChange(direction)
    \/ \E type \in PeriodTypes : setPeriodType(type)

SpecOptimizer == InitOptimizer /\ [][NextOptimizer]_vars

(* SpecAnalysis: the AI insights of the performance view *)

\* three entries: two in the week of 29 January 2024, one in the week before
AnalysisEntries ==
    <<Entry(1, <<2024, 1, 24>>, 30000, 200, 8, 2000),
      Entry(2, <<2024, 1, 30>>, 10000, 50, 0, 0),
      Entry(3, <<2024, 2, 1>>, 24060, 100, 9, 1230)>>

AnalysisEntryLists == {AnalysisEntries} \cup SharedDateLists

InitAnalysis ==
    /\ tz \in TZOffsets
    /\ now \in NowChoices
    /\ entries \in AnalysisEntryLists
    /\ vehicleCostPerKm = DefaultCost
    /\ periodType = "week"
    /\ currentDate = now
    /\ optimizerData = ComputeOptimizerData(entries, vehicleCostPerKm, periodType, currentDate)
    /\ optimizerInsights = OptimizerInsightsInitial
    /\ PremiumOnScreen
    /\ KeysIdle
    /\ ReportIdle
    /\ DayOfWeekIdle
    /\ premiumView = ToolOpened("performance-analysis")
    /\ StoreUntouched
    /\ ToastHidden
    /\ BackupIdle
    /\ RegroupIdle
    /\ WorkerIdle
    /\ WeeksIdle

\* every variable but the insights of the performance view
NotOptimizerInsights ==
    <<tz, sideVars, toast, backupVars, now, storeVars, currentView, calculatorVars, viewingEntry, formVars,
      keyVars, reportVars, dayOfWeekVars, periodType, currentDate, optimizerData, premiumView>>

\* onClick of the analysis button of the performance view, up to the return or the
\* await; the button is rendered when the period holds an entry, and is disabled
\* while isLoading or when the period holds fewer than two entries
handleGenerateInsightsOptimizer ==
    /\ optimizerData.mounted
    /\ Len(optimizerData.filteredEntries) > 0
    /\ ~(optimizerInsights.isLoading \/ Len(optimizerData.filteredEntries) < 2)
    /\ optimizerInsights' =
            OptimizerAfterGenerate(optimizerInsights, optimizerData, periodType, vehicleCostPerKm)
    /\ UNCHANGED NotOptimizerInsights

\* the awaited generateContent resolves or rejects: the rest of handleGenerateInsights
optimizerContentSettled(ok) ==
    /\ optimizerData.mounted
    /\ optimizerInsights.isLoading
    /\ optimizerInsights.request # null
    /\ \E text \in OptimizerResponseTexts(optimizerInsights.request) :
            optimizerInsights' = OptimizerAfterResponse(optimizerInsights, ok, text)
    /\ UNCHANGED NotOptimizerInsights

\* the insights block of the performance view shows aiInsights
OptimizerInsightsShown ==
    /\ optimizerData.mounted
    /\ Len(optimizerData.filteredEntries) > 0
    /\ optimizerInsights.aiInsights # EmptyString
    /\ ~optimizerInsights.isLoading

NextAnalysis ==
    \/ \E direction \in Directions : handleDateChange(direction)
    \/ \E type \in PeriodTypes : setPeriodType(type)
    \/ handleGenerateInsightsOptimizer
    \/ \E ok \in BOOLEAN : optimizerContentSettled(ok)

SpecAnalysis == InitAnalysis /\ [][NextAnalysis]_vars

(* SpecInsights: the AI insights of the premium tools over the stored entries *)

\* the entry contents the insights are asked over
InsightContents ==
    { <<<<2023, 12, 16>>, 30000, 200, 8, 2000>>,
      <<<<2024, 1, 1>>,   30000, 200, 8, 2000>>,
      <<<<2024, 1, 8>>,   10000,  50, 0,    0>> }

\* the number of entries the insights are asked over is at most MaxInsight
MaxInsight == 4

InsightEntryLists ==
    { [i \in 1..Len(q) |-> Entry(i, q[i][1], q[i][2], q[i][3], q[i][4], q[i][5])] :
        q \in SeqsUpTo(InsightContents, MaxInsight) }

InitInsights ==
    /\ tz \in TZOffsets
    /\ now \in NowChoices
    /\ entries \in InsightEntryLists
    /\ vehicleCostPerKm = DefaultCost
    /\ premiumView = ToolOpened("ai-insights")
    /\ StoreUntouched
    /\ ToastHidden
    /\ BackupIdle
    /\ RegroupIdle
    /\ WorkerIdle
    /\ WeeksIdle
    /\ PremiumOnScreen
    /\ KeysIdle
    /\ ReportIdle
    /\ DayOfWeekIdle
    /\ OptimizerIdle

\* every variable but the premium view's
NotPremium == <<tz, sideVars, toast, backupVars, now, storeVars, currentView, calculatorVars, viewingEntry, formVars, keyVars,
                reportVars, dayOfWeekVars, optimizerVars>>

\* onClick of a range tab of the insights
setAiDateRange(r) ==
    /\ currentView = "premium"
    /\ premiumView.selectedTool = "ai-insights"
    /\ r # premiumView.aiDateRange
    /\ premiumView' = [premiumView EXCEPT !.aiDateRange = r]
    /\ UNCHANGED NotPremium

\* onClick of the analysis button, up to the return or the await; the button is
\* rendered while no analysis is loading
handleGenerateInsights(confirmed) ==
    /\ currentView = "premium"
    /\ premiumView.selectedTool = "ai-insights"
    /\ ~premiumView.isLoading
    /\ premiumView' = PremiumAfterGenerate(premiumView, entries, vehicleCostPerKm, now, confirmed)
    /\ UNCHANGED NotPremium

\* the awaited generateContent resolves or rejects: the rest of handleGenerateInsights
generateContentSettled(ok) ==
    /\ premiumView.isLoading
    /\ premiumView.request # null
    /\ \E text \in ResponseTexts : premiumView' = PremiumAfterResponse(premiumView, ok, text)
    /\ UNCHANGED NotPremium

NextInsights ==
    \/ \E r \in DateRanges : setAiDateRange(r)
    \/ \E confirmed \in BOOLEAN : handleGenerateInsights(confirmed)
    \/ \E ok \in BOOLEAN : generateContentSettled(ok)

SpecInsights == InitInsights /\ [][NextInsights]_vars

(* SpecGeneration: the two AI analyses of the premium tools, one tool on screen at a
   time, with the navigation that stays usable while a request is awaited: a request
   may settle, be outlived by its view, or never settle *)

\* three entries of which one lies within thirty days of the later clock reading
SpreadEntries ==
    <<Entry(1, <<2023, 12, 16>>, 30000, 200, 8, 2000),
      Entry(2, <<2024, 1, 1>>, 30000, 200, 8, 2000),
      Entry(3, <<2024, 1, 8>>, 10000, 50, 0, 0)>>

GenerationEntryLists == AnalysisEntryLists \cup {SpreadEntries}

InitGeneration ==
    /\ tz \in TZOffsets
    /\ now \in NowChoices
    /\ entries \in GenerationEntryLists
    /\ vehicleCostPerKm = DefaultCost
    /\ periodType = "week"
    /\ currentDate = now
    /\ optimizerData \in {[mounted |-> FALSE],
                          ComputeOptimizerData(entries, vehicleCostPerKm, periodType, currentDate)}
    /\ optimizerInsights = OptimizerInsightsInitial
    /\ premiumView = ToolOpened(IF optimizerData.mounted THEN "performance-analysis"
                                                             ELSE "ai-insights")
    /\ PremiumOnScreen
    /\ KeysIdle
    /\ ReportIdle
    /\ DayOfWeekIdle
    /\ StoreUntouched
    /\ ToastHidden
    /\ BackupIdle
    /\ RegroupIdle
    /\ WorkerIdle
    /\ WeeksIdle

NextGeneration ==
    \/ \E r \in DateRanges : setAiDateRange(r)
    \/ \E confirmed \in BOOLEAN : handleGenerateInsights(confirmed)
    \/ \E ok \in BOOLEAN : generateContentSettled(ok)
    \/ NextAnalysis
    \/ \E view \in Views : setCurrentView(view)
    \/ \E tool \in Tools : setSelectedTool(tool)
    \/ closeSelectedTool

\* nothing makes the promise of generateContent settle: the handlers set no timeout
\* and pass no abort signal
SpecGeneration == InitGeneration /\ [][NextGeneration]_vars

(* SpecWorker: the fetch listener of the service worker (sw.js) and its two
   strategies *)

CORE_CACHE_NAME == "ganhospro-core-v4"

STATIC_CACHE_NAME == "ganhospro-static-v3"

FONTS_CACHE_NAME == "ganhospro-fonts-v3"

ALL_CACHES == {CORE_CACHE_NAME, STATIC_CACHE_NAME, FONTS_CACHE_NAME}

\* a promise that has not settled
Pending == [kind |-> "pending"]

\* the value undefined
Undefined == [kind |-> "undefined"]

\* a rejected promise
Rejected == [kind |-> "rejected"]

\* fetch(request) has not been called
NotStarted == [kind |-> "notStarted"]

\* a Response of the network, response.ok being 200 <= status <= 299
Response(status, body) ==
    [kind |-> "response", ok |-> (200 <= status /\ status <= 299), status |-> status,
     body |-> body]

\* the responses the network gives: two versions of a resource, or an error page
NetworkResponses == {Response(200, "v1"), Response(200, "v2"), Response(404, "none")}

\* the requests the page makes
Request(url, method, protocol, hostname, destination, mode) ==
    [url |-> url, method |-> method, protocol |-> protocol, hostname |-> hostname,
     destination |-> destination, mode |-> mode]

NavigateRequest == Request("/index.html", "GET", "https:", "ganhospro.app", "document", "navigate")

FontRequest == Request("/css2", "GET", "https:", "fonts.googleapis.com", "style", "no-cors")

ImageRequest == Request("/icon.png", "GET", "https:", "ganhospro.app", "image", "no-cors")

CdnRequest == Request("/react", "GET", "https:", "aistudiocdn.com", "", "cors")

ApiRequest ==
    Request("/generateContent", "POST", "https:", "generativelanguage.googleapis.com", "", "cors")

ExtensionRequest == Request("/content.js", "GET", "chrome-extension:", "abcdef", "script", "no-cors")

DataRequest == Request("/data.json", "GET", "https:", "ganhospro.app", "", "cors")

Requests ==
    {NavigateRequest, FontRequest, ImageRequest, CdnRequest, ApiRequest, ExtensionRequest,
     DataRequest}

Urls == {r.url : r \in Requests}

\* url.hostname.includes('aistudiocdn.com'), over the host names of Requests
IncludesCdn(hostname) == hostname \in {"aistudiocdn.com"}

\* the strategy and the cache the fetch listener hands the request to
NotHandled == [strategy |-> "none", cacheName |-> ""]

Route(request) ==
    IF request.method # "GET" \/ request.protocol = "chrome-extension:"
    THEN NotHandled
    ELSE IF request.hostname = "fonts.googleapis.com" \/ request.hostname = "fonts.gstatic.com"
    THEN [strategy |-> "staleWhileRevalidate", cacheName |-> FONTS_CACHE_NAME]
    ELSE IF request.destination = "image"
    THEN [strategy |-> "cacheFirst", cacheName |-> STATIC_CACHE_NAME]
    ELSE IF \/ request.mode = "navigate"
            \/ request.destination \in {"script", "style", "manifest"}
            \/ IncludesCdn(request.hostname)
    THEN [strategy |-> "staleWhileRevalidate", cacheName |-> CORE_CACHE_NAME]
    ELSE NotHandled

\* cache.match(request): the stored response, or undefined
CacheMatch(cacheStorage, cacheName, request) == cacheStorage[cacheName][request.url]

\* cache.put(request, response.clone())
CachePut(cacheStorage, cacheName, request, response) ==
    [cacheStorage EXCEPT ![cacheName][request.url] = response]

\* the caches before install has stored anything
EmptyCaches == [c \in ALL_CACHES |-> [u \in Urls |-> Undefined]]

\* the caches after install has stored the app shell
ShellCaches == CachePut(EmptyCaches, CORE_CACHE_NAME, NavigateRequest, Response(200, "v0"))

\* the number of fetch events followed is at most MaxEvents
MaxEvents == 2

\* the value staleWhileRevalidate resolves to once both promises are known:
\* cachedResponse || networkResponsePromise
StaleOrNetwork(cachedResponse, networkResponse) ==
    IF cachedResponse.kind = "pending"
    THEN Pending
    ELSE IF cachedResponse.kind = "response"
    THEN cachedResponse
    ELSE networkResponse

InitWorker ==
    /\ tz = 0
    /\ now = FirstNow
    /\ entries = <<>>
    /\ vehicleCostPerKm = DefaultCost
    /\ serviceWorker \in {[installed |-> TRUE, caches |-> c, flights |-> <<>>] :
                            c \in {EmptyCaches, ShellCaches}}
    /\ StoreUntouched
    /\ ToastHidden
    /\ BackupIdle
    /\ RegroupIdle
    /\ WeeksIdle
    /\ PremiumOnScreen
    /\ KeysIdle
    /\ ReportIdle
    /\ DayOfWeekIdle
    /\ OptimizerIdle
    /\ InsightsIdle

\* every variable but the service worker's
NotWorker ==
    <<tz, regrouped, weeks, toast, backupVars, now, storeVars, currentView, calculatorVars, viewingEntry, formVars,
      keyVars, reportVars, dayOfWeekVars, optimizerVars, premiumView>>

\* cache.match(request) has not been called
NotCalled == [kind |-> "notCalled"]

\* the fetch listener: the request is left to the browser, or answered with the
\* promise of a strategy, which runs to its `await caches.open(cacheName)` and
\* gives the turn back: neither cache.match nor fetch has been called
fetchEvent(request) ==
    /\ serviceWorker.installed
    /\ Len(serviceWorker.flights) < MaxEvents
    /\ serviceWorker' =
        [serviceWorker EXCEPT !.flights =
            Append(@, [request |-> request,
                       strategy |-> Route(request).strategy,
                       cacheName |-> Route(request).cacheName,
                       cache |-> IF Route(request) = NotHandled THEN "none" ELSE "opening",
                       cachedResponse |->
                            IF Route(request) = NotHandled THEN NotStarted ELSE NotCalled,
                       networkResponse |-> NotStarted,
                       put |-> "none",
                       answer |-> IF Route(request) = NotHandled THEN NotStarted ELSE Pending])]
    /\ UNCHANGED NotWorker

\* caches.open(cacheName) of flight i resolves: the strategy calls
\* cache.match(request); staleWhileRevalidate calls fetch(request) in the same
\* turn, cacheFirst awaits the match first
cachesOpenResolved(i) ==
    /\ serviceWorker.installed
    /\ i \in 1..Len(serviceWorker.flights)
    /\ serviceWorker.flights[i].cache = "opening"
    /\ LET f == serviceWorker.flights[i]
       IN  serviceWorker' =
            [serviceWorker EXCEPT !.flights[i] =
                [f EXCEPT !.cache = "open",
                          !.cachedResponse = Pending,
                          !.networkResponse =
                                IF f.strategy = "staleWhileRevalidate"
                                THEN Pending ELSE NotStarted]]
    /\ UNCHANGED NotWorker

\* the promise of cache.match(request) of flight i resolves
cacheMatchResolved(i) ==
    /\ serviceWorker.installed
    /\ i \in 1..Len(serviceWorker.flights)
    /\ serviceWorker.flights[i].cachedResponse = Pending
    /\ LET f == serviceWorker.flights[i]
           cached == CacheMatch(serviceWorker.caches, f.cacheName, f.request)
       IN  serviceWorker' =
            [serviceWorker EXCEPT !.flights[i] =
                IF f.strategy = "staleWhileRevalidate"
                THEN [f EXCEPT !.cachedResponse = cached,
                               !.answer = StaleOrNetwork(cached, f.networkResponse)]
                ELSE IF cached.kind = "response"
                THEN [f EXCEPT !.cachedResponse = cached, !.answer = cached]
                ELSE [f EXCEPT !.cachedResponse = cached, !.networkResponse = Pending]]
    /\ UNCHANGED NotWorker

\* fetch(request) of flight i resolves with a response. staleWhileRevalidate: if
\* (response.ok) cache.put(request, response.clone()) is called and not awaited,
\* and the response is returned. cacheFirst: the put is awaited before the
\* response is returned
fetchResolved(i, response) ==
    /\ serviceWorker.installed
    /\ i \in 1..Len(serviceWorker.flights)
    /\ serviceWorker.flights[i].networkResponse = Pending
    /\ LET f == serviceWorker.flights[i]
       IN  serviceWorker' =
            [serviceWorker EXCEPT !.flights[i] =
                IF f.strategy = "staleWhileRevalidate"
                THEN [f EXCEPT !.networkResponse = response,
                               !.put = IF response.ok THEN "pending" ELSE "none",
                               !.answer = StaleOrNetwork(f.cachedResponse, response)]
                ELSE IF response.ok
                THEN [f EXCEPT !.networkResponse = response, !.put = "pending"]
                ELSE [f EXCEPT !.networkResponse = response, !.answer = response]]
    /\ UNCHANGED NotWorker

\* cache.put(request, response.clone()) of flight i completes: the cache holds
\* the response; cacheFirst, which awaited the put, returns the response
putResolved(i) ==
    /\ serviceWorker.installed
    /\ i \in 1..Len(serviceWorker.flights)
    /\ serviceWorker.flights[i].put = "pending"
    /\ LET f == serviceWorker.flights[i]
       IN  serviceWorker' =
            [serviceWorker EXCEPT
                !.caches = CachePut(@, f.cacheName, f.request, f.networkResponse),
                !.flights[i] =
                    IF f.strategy = "staleWhileRevalidate"
                    THEN [f EXCEPT !.put = "done"]
                    ELSE [f EXCEPT !.put = "done", !.answer = f.networkResponse]]
    /\ UNCHANGED NotWorker

\* fetch(request) of flight i rejects: staleWhileRevalidate catches the error,
\* logs it and goes on with undefined; cacheFirst throws it again
fetchRejected(i) ==
    /\ serviceWorker.installed
    /\ i \in 1..Len(serviceWorker.flights)
    /\ serviceWorker.flights[i].networkResponse = Pending
    /\ LET f == serviceWorker.flights[i]
       IN  serviceWorker' =
            [serviceWorker EXCEPT !.flights[i] =
                IF f.strategy = "staleWhileRevalidate"
                THEN [f EXCEPT !.networkResponse = Undefined,
                               !.answer = StaleOrNetwork(f.cachedResponse, Undefined)]
                ELSE [f EXCEPT !.networkResponse = Rejected, !.answer = Rejected]]
    /\ UNCHANGED NotWorker

NextWorker ==
    \/ \E request \in Requests : fetchEvent(request)
    \/ \E i \in 1..MaxEvents : cachesOpenResolved(i)
    \/ \E i \in 1..MaxEvents : cacheMatchResolved(i)
    \/ \E i \in 1..MaxEvents, response \in NetworkResponses : fetchResolved(i, response)
    \/ \E i \in 1..MaxEvents : putResolved(i)
    \/ \E i \in 1..MaxEvents : fetchRejected(i)

SpecWorker == InitWorker /\ [][NextWorker]_vars

(* SpecWeeks: the week window of the performance view and the week key of the
   general report, applied to the same Dates *)

\* the Dates compared with a Date lie within WeekReach days of it
WeekReach == 7

\* the times of day of the Dates: 00:00:00, 12:00:00 and 23:59:59
TimesOfDay == {StartOfDay, 12 * 3600, EndOfDay}

\* the first and the last Date of the local calendar date s
DatesOfDay(s) == {NewDateLocal(s[1], s[2] - 1, s[3]) + t : t \in {StartOfDay, EndOfDay}}

\* the Dates up to WeekReach days before and after the day of a
DatesAround(a) ==
    {setHoursOfDay(a, StartOfDay) + k * SecPerDay + t :
        k \in (0 - WeekReach)..WeekReach, t \in TimesOfDay}

\* b lies in the window getWeekRange(a): b >= start && b <= end
InWeekRange(b, a) == DateGE(b, getWeekRange(a).start) /\ DateLE(b, getWeekRange(a).end)

InitWeeks ==
    /\ tz \in TZOffsets
    /\ now = FirstNow
    /\ weeks \in {[state |-> "pending", a |-> a] : a \in UNION {DatesOfDay(s) : s \in ProbeDates}}
    /\ entries = <<>>
    /\ vehicleCostPerKm = DefaultCost
    /\ PremiumOnScreen
    /\ KeysIdle
    /\ ReportIdle
    /\ DayOfWeekIdle
    /\ OptimizerIdle
    /\ InsightsIdle
    /\ StoreUntouched
    /\ ToastHidden
    /\ BackupIdle
    /\ RegroupIdle
    /\ WorkerIdle

\* getWeekRange(a) and getWeekKey(a) are both put to every Date around a
compareWeeks ==
    /\ weeks.state = "pending"
    /\ weeks' = [state |-> "compared",
                 a |-> weeks.a,
                 inWindow |-> {b \in DatesAround(weeks.a) : InWeekRange(b, weeks.a)},
                 sameKey |-> {b \in DatesAround(weeks.a) : getWeekKey(b) = getWeekKey(weeks.a)}]
    /\ UNCHANGED <<tz, regrouped, serviceWorker, toast, backupVars, now, storeVars, currentView,
                   calculatorVars, viewingEntry, formVars, keyVars, reportVars, dayOfWeekVars,
                   optimizerVars, premiumView>>

NextWeeks == compareWeeks

SpecWeeks == InitWeeks /\ [][NextWeeks]_vars

(* The handlers of the views that change the store *)

\* handleSave stops being followed when the store holds MaxEntries entries
MaxEntries == 3

\* the clock readings of a run: two calls may read the same one
StoreClock == {FirstNow, FirstNow + SecPerDay}

\* an id no entry of the store has
AbsentId == toISOString(0)

\* the formData of the edit form for an entry: its id and date, the four numbers as typed
UpdatedEntry(id, date) == Entry(id, date, 25000, 100, 5, 0)

\* the text the cost field is given by typing: a digit is added to the masked text
CostInputs == {<<"0", "1", ",", "2", "0">>}

\* the texts typed into the calculator of the settings: a tank of 100,00 at 5,00
\* the litre over 200 km (0,50 a kilometre); the extras are left at 0.20 (0,70 in
\* all) or set to -5 (-4,50 in all)
CalcInputs ==
    [calcFuelPrice |-> {<<"5">>},
     calcFuel      |-> {<<"1", "0", "0">>},
     calcKms       |-> {<<"2", "0", "0">>},
     calcExtras    |-> {<<"-", "5">>}]

\* entries found in localStorage on launch: one whose date does not parse and one of
\* 1 January 2024
LoadedUndated == Entry(toISOString(FirstNow - 20 * SecPerDay), NotADate, 50000, 100, 5, 0)
LoadedDated == Entry(toISOString(FirstNow - 14 * SecPerDay), <<2024, 1, 1>>, 30000, 200, 8, 2000)

\* the stores of a launch
LoadedStores == {<<>>, <<LoadedUndated, LoadedDated>>}

\* every variable but the store's and the clock
NotStore == <<tz, sideVars, toast, backupVars, currentView, calculatorVars, viewingEntry, formVars, keyVars, reportVars,
              dayOfWeekVars, optimizerVars, premiumView>>

\* the system clock advances
tick(t) ==
    /\ t > now
    /\ now' = t
    /\ UNCHANGED <<storeVars, NotStore>>

\* the dates picked in the date input of the form
FormDates == {<<2024, 1, 10>>, <<2024, 1, 14>>}

\* the message of handleSave's toast
SavedMessage == <<"Salvo no historico!">>

\* onChange of the date input: setDate(e.target.value)
setFormDate(v) ==
    /\ FormOnScreen
    /\ dateInput' = v
    /\ UNCHANGED <<earnings, kms, hours, costs, results, NotCalculator>>

\* the newEntry of handleSave
FormEntry ==
    [date            |-> dateInput,
     totalEarnings   |-> ParseFloatOrZero(earnings),
     kmDriven        |-> ParseFloatOrZero(kms),
     hoursWorked     |-> ParseFloatOrZero(hours),
     additionalCosts |-> ParseFloatOrZero(costs)]

\* onClick of 'Salvar': store.addEntry(newEntry); showToast(...); resetForm()
handleSave ==
    /\ currentView = "calculator"
    /\ results # null
    /\ Len(entries) < MaxEntries
    /\ addEntry(FormEntry)
    /\ toast' = showToast(SavedMessage)
    /\ earnings' = EmptyInput
    /\ kms' = EmptyInput
    /\ hours' = EmptyInput
    /\ costs' = EmptyInput
    /\ dateInput' = toISODate(now)
    /\ results' = null
    /\ UNCHANGED <<tz, sideVars, backupVars, now, currentView, viewingEntry, formVars, keyVars, reportVars,
                   dayOfWeekVars, optimizerVars, premiumView>>

\* onClose of the toast: setToast({ ...toast, show: false })
closeToast ==
    /\ toast.show
    /\ toast' = [toast EXCEPT !.show = FALSE]
    /\ UNCHANGED <<tz, sideVars, backupVars, now, storeVars, currentView, calculatorVars, viewingEntry, formVars, keyVars,
                   reportVars, dayOfWeekVars, optimizerVars, premiumView>>

(* SpecStore: the store is changed from the calculator, the history and the settings *)

InitStore ==
    /\ tz = 0
    /\ now = FirstNow
    /\ entries = <<>>
    /\ vehicleCostPerKm = DefaultCost
    /\ currentView = "calculator"
    /\ CalculatorInitial
    /\ HistoryInitial
    /\ SettingsIdle
    /\ StoreUntouched
    /\ ToastHidden
    /\ BackupIdle
    /\ RegroupIdle
    /\ WorkerIdle
    /\ WeeksIdle
    /\ KeysIdle
    /\ ReportIdle
    /\ DayOfWeekIdle
    /\ OptimizerIdle
    /\ InsightsIdle

NextStore ==
    \/ \E t \in StoreClock : tick(t)
    \/ \E view \in {"calculator", "history", "settings"} : setCurrentView(view)
    \/ setEarnings(<<30000>>)
    \/ setKms(<<200>>)
    \/ calculateMetrics
    \/ handleSave
    \/ \E j \in 1..Len(displayedEntries) : setViewingEntry(displayedEntries[j])
    \/ handleEditRequest
    \/ closeEdit
    \/ handleSaveEdit(UpdatedEntry(editingEntry.id, editingEntry.date))
    \/ handleDeleteRequest(viewingEntry.id)
    \/ \E value \in CostInputs : handleCostChange(value)
    \/ handleSaveCost
    \/ openDeleteModal
    \/ closeDeleteModal
    \/ handleConfirmDeleteOldEntries

SpecStore == InitStore /\ [][NextStore]_vars

(* SpecSave: a calculation is saved from the calculator *)

\* the app is launched over an empty store or over a store found in localStorage
InitSave ==
    /\ tz = 0
    /\ now = FirstNow
    /\ entries \in LoadedStores
    /\ vehicleCostPerKm = DefaultCost
    /\ currentView = "calculator"
    /\ CalculatorInitial
    /\ HistoryInitial
    /\ SettingsIdle
    /\ StoreUntouched
    /\ ToastHidden
    /\ BackupIdle
    /\ RegroupIdle
    /\ WorkerIdle
    /\ WeeksIdle
    /\ KeysIdle
    /\ ReportIdle
    /\ DayOfWeekIdle
    /\ OptimizerIdle
    /\ InsightsIdle

NextSave ==
    \/ \E t \in StoreClock : tick(t)
    \/ setEarnings(<<30000>>)
    \/ setKms(<<200>>)
    \/ \E v \in FormDates : setFormDate(v)
    \/ calculateMetrics
    \/ handleSave
    \/ resetForm
    \/ closeToast

SpecSave == InitSave /\ [][NextSave]_vars

(* SpecBackup: the store is exported to a JSON backup and restored from a file *)

\* JSON.stringify of a number of the store, in hundredths or whole: a number token,
\* every number the store holds being finite
JSONNumber(n) == [type |-> "number", value |-> n]

\* JSON.stringify of a string
JSONString(str) == [type |-> "string", text |-> str]

\* JSON.stringify of an entry: its own properties in order
JSONEntry(e) ==
    [type |-> "object",
     members |-> [id |-> JSONString(e.id),
                  date |-> JSONString(e.date),
                  totalEarnings |-> JSONNumber(e.totalEarnings),
                  kmDriven |-> JSONNumber(e.kmDriven),
                  hoursWorked |-> JSONNumber(e.hoursWorked),
                  additionalCosts |-> JSONNumber(e.additionalCosts)]]

\* JSON.stringify(backupData, null, 2) for
\* backupData = { vehicleCostPerKm, entries }
JSONStringify(backupData) ==
    [type |-> "object",
     members |-> [vehicleCostPerKm |-> JSONNumber(backupData.vehicleCostPerKm),
                  entries |-> [type |-> "array",
                               items |-> [i \in 1..Len(backupData.entries) |->
                                              JSONEntry(backupData.entries[i])]]]]

\* the value a JSON token parses to: a number, a string or null
JSONScalar(token) ==
    CASE token.type = "number" -> token.value
      [] token.type = "string" -> token.text
      [] OTHER -> null

\* JSON.parse of one item of the entries array
JSONParseEntry(item) ==
    IF item.type = "object"
    THEN [name \in DOMAIN item.members |-> JSONScalar(item.members[name])]
    ELSE JSONScalar(item)

\* data.<name> of the parsed text: the member, undefined when there is none
Member(text, name) ==
    IF text.type = "object" /\ name \in DOMAIN text.members
    THEN text.members[name]
    ELSE [type |-> "undefined"]

\* data.entries and data.vehicleCostPerKm of JSON.parse(text), once
\* handleImportJSON has validated them
ParsedBackup(text) ==
    [entries |-> [i \in 1..Len(Member(text, "entries").items) |->
                      JSONParseEntry(Member(text, "entries").items[i])],
     vehicleCostPerKm |-> Member(text, "vehicleCostPerKm").value]

\* what reader.onload of handleImportJSON ends with for the text of the chosen
\* file: "error" when JSON.parse throws or when the validation throws;
\* otherwise the confirm dialog decides: declined, nothing is done; accepted,
\* store.replaceAllEntries(data.entries) is called first: the store returned by
\* the hook has no replaceAllEntries, the call throws a TypeError inside the try
\* and the catch answers with the alert of the error
ImportOutcome(text, confirmed) ==
    IF text.type = "invalid" THEN "error"
    ELSE IF Member(text, "vehicleCostPerKm").type # "number"
            \/ Member(text, "entries").type # "array" THEN "error"
    ELSE IF ~confirmed THEN "declined"
    ELSE "error"

\* files that are no backup of this program
NotJSON == [type |-> "invalid"]
NoCostFile ==
    [type |-> "object",
     members |-> [entries |-> [type |-> "array", items |-> <<>>]]]
TextCostFile ==
    [type |-> "object",
     members |-> [vehicleCostPerKm |-> JSONString(<<"0.75">>),
                  entries |-> [type |-> "array", items |-> <<>>]]]
NoEntriesFile ==
    [type |-> "object",
     members |-> [vehicleCostPerKm |-> JSONNumber(120)]]
EntriesObjectFile ==
    [type |-> "object",
     members |-> [vehicleCostPerKm |-> JSONNumber(120),
                  entries |-> [type |-> "object", members |-> [length |-> JSONNumber(0)]]]]
\* a hand-written backup: an empty history and another cost
ForeignBackup == JSONStringify([vehicleCostPerKm |-> 50, entries |-> <<>>])

RejectedFiles == {NotJSON, NoCostFile, TextCostFile, NoEntriesFile, EntriesObjectFile}

\* the files the user can choose in the file input
ImportFiles ==
    RejectedFiles \cup {ForeignBackup}
        \cup (IF backup.exported THEN {backup.file} ELSE {})

\* the history holds at most this many entries while backups are taken
MaxBackedUp == 2

\* at most this many files are being read at a time
MaxReads == 1

InitBackup == InitStore

NotBackup == <<tz, sideVars, toast, now, currentView, calculatorVars, viewingEntry, formVars, keyVars,
               dayOfWeekVars, optimizerVars, premiumView>>

\* the tool 'Backup e Exportação' is on screen
DataToolsOnScreen ==
    /\ currentView = "premium"
    /\ premiumView.selectedTool = "data-tools"

\* handleExport('json')
handleExport ==
    /\ DataToolsOnScreen
    /\ backup' = [exported |-> TRUE,
                  file |-> JSONStringify([vehicleCostPerKm |-> vehicleCostPerKm,
                                          entries |-> entries]),
                  entries |-> entries,
                  vehicleCostPerKm |-> vehicleCostPerKm]
    /\ UNCHANGED <<importAttempt, storeVars, reportVars, NotBackup>>

\* handleImportJSON: onClick of 'Restaurar' and onchange of the file input with
\* the file the user chose: reader.readAsText(file) starts the read, and
\* reader.onload runs when the file is read
handleImportJSON(text) ==
    /\ DataToolsOnScreen
    /\ Len(importAttempt.reading) < MaxReads
    /\ importAttempt' = [importAttempt EXCEPT !.reading = Append(@, text)]
    /\ UNCHANGED <<backup, storeVars, reportVars, NotBackup>>

\* reader.onload of the i-th file being read, with the answer to window.confirm,
\* whatever is on screen by then: the alert of the error, or nothing when the
\* user declines; no call of the store returns, setVehicleCostPerKm and the alert
\* of the success are not reached
readerOnload(i, confirmed) ==
    /\ i \in 1..Len(importAttempt.reading)
    /\ importAttempt' =
            [reading |-> SubSeq(importAttempt.reading, 1, i - 1)
                            \o SubSeq(importAttempt.reading, i + 1, Len(importAttempt.reading)),
             alert |-> ImportOutcome(importAttempt.reading[i], confirmed)]
    /\ UNCHANGED <<backup, storeVars, reportVars, NotBackup>>

NextBackup ==
    \/ \E view \in Views : setCurrentView(view)
    \/ setSelectedTool("data-tools")
    \/ closeSelectedTool
    \/ setEarnings(<<30000>>)
    \/ setKms(<<200>>)
    \/ calculateMetrics
    \/ Len(entries) < MaxBackedUp /\ handleSave
    \/ \E j \in 1..Len(displayedEntries) : setViewingEntry(displayedEntries[j])
    \/ handleEditRequest
    \/ handleSaveEdit(UpdatedEntry(editingEntry.id, editingEntry.date))
    \/ handleDeleteRequest(viewingEntry.id)
    \/ handleCostChange(<<"1", "2", "0">>)
    \/ handleSaveCost
    \/ handleExport
    \/ \E text \in ImportFiles : handleImportJSON(text)
    \/ \E i \in 1..MaxReads, confirmed \in BOOLEAN : readerOnload(i, confirmed)

SpecBackup == InitBackup /\ [][NextBackup]_vars

(* SpecMemo: the store changes between the renders of the general report *)

InitMemo == InitStore

NextMemo ==
    \/ setSelectedTool("report")
    \/ closeSelectedTool
    \/ \E p \in Periods : setPeriod(p)
    \/ \E view \in Views : setCurrentView(view)
    \/ setEarnings(<<30000>>)
    \/ setKms(<<200>>)
    \/ calculateMetrics
    \/ handleSave
    \/ \E j \in 1..Len(displayedEntries) : setViewingEntry(displayedEntries[j])
    \/ handleEditRequest
    \/ handleSaveEdit(UpdatedEntry(editingEntry.id, editingEntry.date))
    \/ handleDeleteRequest(viewingEntry.id)
    \/ handleCostChange(<<"1", "2", "0">>)
    \/ \E field \in DOMAIN CalcInputs : \E value \in CalcInputs[field] : setCalcField(field, value)
    \/ handleCalculate
    \/ handleUseCalculatedValue
    \/ handleSaveCost

SpecMemo == InitMemo /\ [][NextMemo]_vars

(* SpecPermute: the general report groups the entries in every order *)

\* the entries es with those at the places i and j exchanged
Exchanged(es, i, j) ==
    [k \in 1..Len(es) |-> IF k = i THEN es[j] ELSE IF k = j THEN es[i] ELSE es[k]]

\* the totals of the entries and of the arrangement of them
Regrouped(es, arranged, cost, p) ==
    [state    |-> "grouped",
     period   |-> p,
     arranged |-> arranged,
     original |-> ComputePeriodData(es, cost, p),
     permuted |-> ComputePeriodData(arranged, cost, p)]

InitPermute ==
    /\ tz \in {0 - 180, 0}
    /\ now = FirstNow
    /\ entries \in PermutedEntryLists
    /\ vehicleCostPerKm \in CostChoices
    /\ regrouped = Regrouped(entries, entries, vehicleCostPerKm, "month")
    /\ WorkerIdle
    /\ WeeksIdle
    /\ PremiumOnScreen
    /\ ReportIdle
    /\ KeysIdle
    /\ DayOfWeekIdle
    /\ OptimizerIdle
    /\ InsightsIdle
    /\ StoreUntouched
    /\ ToastHidden
    /\ BackupIdle

NotPermute == <<tz, serviceWorker, weeks, toast, backupVars, now, storeVars, currentView, calculatorVars, viewingEntry, formVars,
                keyVars, reportVars, dayOfWeekVars, optimizerVars, premiumView>>

\* two entries of the arrangement change places and the report groups it
exchange(i, j) ==
    /\ i < j
    /\ regrouped' = Regrouped(entries, Exchanged(regrouped.arranged, i, j),
                              vehicleCostPerKm, regrouped.period)
    /\ UNCHANGED NotPermute

\* the report groups the arrangement by another period
regroup(p) ==
    /\ p # regrouped.period
    /\ regrouped' = Regrouped(entries, regrouped.arranged, vehicleCostPerKm, p)
    /\ UNCHANGED NotPermute

NextPermute ==
    \/ \E i, j \in 1..Len(entries) : exchange(i, j)
    \/ \E p \in Periods : regroup(p)

SpecPermute == InitPermute /\ [][NextPermute]_vars

-----------------------------------------------------------------------------
(* Calendar reference used to state the claims *)

\* 0 = Sunday .. 6 = Saturday of a day number (1970-01-01 was a Thursday)
Weekday(dn) == (dn + 4) % 7

\* the Thursday of the Monday-to-Sunday week that holds day number dn
ThursdayOfWeek(dn) == (CHOOSE x \in (dn - 6)..dn : Weekday(x) = 1) + 3

TwoDigits(n) == <<DigitChars[(n \div 10) + 1], DigitChars[(n % 10) + 1]>>

\* '{Y}-S{WW}': Y the year of the week's Thursday, WW the count of Thursdays of Y up to it
IsoWeekKeyOf(dn) ==
    LET th == ThursdayOfWeek(dn)
        Y  == CivilFromDays(th)[1]
        WW == Cardinality({x \in DaysFromCivil(Y, 1, 1)..th : Weekday(x) = 4})
    IN  NumToString(Y) \o <<"-", "S">> \o TwoDigits(WW)

\* the local calendar day number of a Date
LocalDayNumber(t) == LocalTime(t) \div SecPerDay

\* C2: getWeekKey(d) is '{Y}-S{WW}' with Y the calendar year of the Thursday of d's
\* Monday-to-Sunday week and WW (two digits, 01..53) that Thursday's ordinal week in Y
C2_WeekKeyIsIso ==
    keys.state = "assigned" =>
        LET date == NewDateFromString(probe)
        IN  /\ keys.week = IsoWeekKeyOf(LocalDayNumber(date))
            /\ Len(keys.week) = 8

\* a Date whose local calendar date is Monday 2018-12-31 got week key 2019-S01
C2_Witness ==
    /\ keys.state = "assigned"
    /\ CivilFromDays(LocalDayNumber(NewDateFromString(probe))) = <<2018, 12, 31>>
    /\ keys.week = <<"2", "0", "1", "9", "-", "S", "0", "1">>

\* the claims' net profit of an entry
NetProfitOf(e, cost) == e.totalEarnings - e.kmDriven * cost - e.additionalCosts

\* the date string is one a Date accepts: month 01..12 and day 01..31
HasValidDate(e) == e.date[2] \in 1..12 /\ e.date[3] \in 1..31

\* the indices of the date-valid entries
ValidIndices(es) == {i \in 1..Len(es) : HasValidDate(es[i])}

RECURSIVE SumOver(_, _, _)
\* the flat sum of net profit over the entries at the indices I
SumOver(es, I, cost) ==
    IF I = {} THEN 0
    ELSE LET i == CHOOSE x \in I : TRUE
         IN  NetProfitOf(es[i], cost) + SumOver(es, I \ {i}, cost)

\* the net profits the report computes for the date-valid entries, in array order
RECURSIVE ValidNetProfitsFrom(_, _, _)
ValidNetProfitsFrom(es, i, cost) ==
    IF i > Len(es) THEN <<>>
    ELSE (IF HasValidDate(es[i]) THEN <<ReportNetProfit(es[i], cost)>> ELSE <<>>)
            \o ValidNetProfitsFrom(es, i + 1, cost)

ValidNetProfits(es, cost) == ValidNetProfitsFrom(es, 1, cost)

\* those of the date-valid entries the grouping by p puts under the key k
BucketNetProfits(es, cost, p, k) ==
    ValidNetProfits(SelectSeq(es, LAMBDA e :
                        HasValidDate(e) /\ getGroupKey(p, NewDateFromString(e.date)) = k),
                    cost)

RECURSIVE FloatSumFrom(_, _, _)
\* acc + xs[i] + ... + xs[Len(xs)], added from left to right
FloatSumFrom(xs, i, acc) ==
    IF i > Len(xs) THEN acc
    ELSE CHOOSE total \in {FloatSumFrom(xs, i + 1, sum) : sum \in {FloatAdd(acc, xs[i])}} : TRUE

\* the flat sum of net profit over the date-valid entries, added in array order
FlatSum(es, cost) == FloatSumFrom(ValidNetProfits(es, cost), 1, FloatZero)

\* the sum of totalProfit over the buckets of the grouping by p
BucketTotal(es, cost, p) ==
    ReduceTotalProfit(ReportFolded(es, cost, p).aggregator, 1, FloatZero)

\* the least exponent of the numbers of S
LeastExponent(S) == CHOOSE e \in {x.exp : x \in S} : \A x \in S : e <= x.exp

\* |x| / 2^e, for e at most the exponent of x
Magnitude(x, e) == IF x.mant = <<>> THEN <<>> ELSE NatShiftLeft(x.mant, x.exp - e)

\* |x - y| / 2^e
Distance(x, y, e) ==
    IF x.neg # y.neg THEN NatAdd(Magnitude(x, e), Magnitude(y, e))
    ELSE IF NatLess(Magnitude(x, e), Magnitude(y, e))
    THEN NatSub(Magnitude(y, e), Magnitude(x, e))
    ELSE NatSub(Magnitude(x, e), Magnitude(y, e))

RECURSIVE SumOfMagnitudes(_, _, _)
\* (|xs[i]| + ... + |xs[Len(xs)]|) / 2^e
SumOfMagnitudes(xs, i, e) ==
    IF i > Len(xs) THEN <<>>
    ELSE NatAdd(Magnitude(xs[i], e), SumOfMagnitudes(xs, i + 1, e))

\* x and y differ by no more than two roundings of the sum of the n numbers xs
\* can: |x - y| <= n * 2^-52 * (|xs[1]| + ... + |xs[n]|)
SameUpToRounding(x, y, xs) ==
    \E a \in {x}, b \in {y}, zs \in {xs} :
        \E e \in {LeastExponent({a, b} \cup {zs[i] : i \in 1..Len(zs)})} :
            ~NatLess(NatTrim(NatMulSmallFrom(SumOfMagnitudes(zs, 1, e), Len(zs), 1, 0)),
                     NatShiftLeft(Distance(a, b, e), SignificandBits - 1))

RECURSIVE SumLucro(_, _)
\* the sum, in centavos, of the first n values of the chart
SumLucro(chartData, n) ==
    IF n = 0 THEN 0 ELSE CentavosOf(chartData[n].Lucro) + SumLucro(chartData, n - 1)

\* n1/d1 = n2/d2
RatEq(a, b) == a[1] * b[2] = b[1] * a[2]

\* C4: the month, year and week key and the day-of-week index assigned to an entry
\* dated YYYY-MM-DD, a day of the calendar, are those of that calendar date, whatever
\* the timezone offset
C4_KeysOfCalendarDate ==
    (keys.state = "assigned" /\ probe[3] <= DaysInMonth(probe[1], probe[2])) =>
        LET dn == DaysFromCivil(probe[1], probe[2], probe[3])
        IN  /\ keys.month = NumToString(probe[1]) \o <<"-">> \o TwoDigits(probe[2])
            /\ keys.year = NumToString(probe[1])
            /\ keys.week = IsoWeekKeyOf(dn)
            /\ keys.dayIndex = Weekday(dn)


\* every date-valid entry is accumulated into exactly one bucket of the displayed
\* grouping
BucketsPartitionEntries ==
    \A i \in ValidIndices(entries) :
        Cardinality({k \in DOMAIN periodData.aggregator.get :
                       entries[i].date \in periodData.aggregator.get[k].days}) = 1

\* C3 (as stated): every date-valid entry is accumulated into exactly one bucket of
\* the displayed grouping, and the sum of totalProfit over the week buckets, over the
\* month buckets and over the year buckets is the flat sum of net profit over the
\* date-valid entries
C3_BucketSumsAreTheFlatSum ==
    periodData.mounted =>
        /\ BucketsPartitionEntries
        /\ \E flat \in {FlatSum(entries, vehicleCostPerKm)} :
              /\ periodData.summaryStats.totalProfit = flat
              /\ \A p \in Periods : BucketTotal(entries, vehicleCostPerKm, p) = flat

\* C3 (amended): every date-valid entry is accumulated into exactly one bucket of the
\* displayed grouping, and the sums of totalProfit over the week buckets, over the
\* month buckets and over the year buckets and the flat sum of net profit over the n
\* date-valid entries agree up to the rounding of the additions: any two of them
\* differ by at most n * 2^-52 times the sum of the absolute net profits
C3_BucketsPartitionEntries ==
    periodData.mounted =>
        /\ BucketsPartitionEntries
        /\ \E sums \in {<<BucketTotal(entries, vehicleCostPerKm, "week"),
                           BucketTotal(entries, vehicleCostPerKm, "month"),
                           BucketTotal(entries, vehicleCostPerKm, "year"),
                           FlatSum(entries, vehicleCostPerKm),
                           periodData.summaryStats.totalProfit>>} :
              \E netProfits \in {ValidNetProfits(entries, vehicleCostPerKm)} :
                  \A i, j \in 1..Len(sums) :
                      i < j => SameUpToRounding(sums[i], sums[j], netProfits)

\* the weekly report of three entries of one month shows two buckets, one of them
\* holding two entries, and the sum of its bucket totals is not the number the
\* monthly grouping sums to
C3_Witness ==
    /\ periodData.mounted
    /\ period = "week"
    /\ Len(entries) = 3
    /\ Cardinality(ValidIndices(entries)) = 3
    /\ Len(periodData.chartData) = 2
    /\ periodData.summaryStats.totalProfit # BucketTotal(entries, vehicleCostPerKm, "month")

\* C5: an entry whose date does not parse is excluded from the bucketed sums, from the
\* best day and from the period statistics (total, entry count, average)
C5_InvalidDateExcluded ==
    periodData.mounted =>
        LET valid == ValidIndices(entries)
            total == SumOver(entries, valid, vehicleCostPerKm)
            n     == Cardinality(valid)
            stats == periodData.summaryStats
        IN  /\ SumLucro(periodData.chartData, Len(periodData.chartData)) = total
            /\ SameUpToRounding(stats.totalProfit, FlatSum(entries, vehicleCostPerKm),
                                ValidNetProfits(entries, vehicleCostPerKm))
            /\ stats.daysWorked = n
            /\ stats.avgProfitPerDay = (IF n > 0 THEN FloatDiv(stats.totalProfit, FloatOfInt(n))
                                                 ELSE FloatZero)
            /\ \A i \in (1..Len(entries)) \ valid : stats.bestDay.date # entries[i].date

\* C8: the best day is the first date-valid entry, in array order, of maximal net profit
C8_BestDayIsFirstMaximum ==
    (periodData.mounted /\ ValidIndices(entries) # {}) =>
        LET valid == ValidIndices(entries)
            first == CHOOSE i \in valid :
                       /\ \A j \in valid :
                              NetProfitOf(entries[j], vehicleCostPerKm)
                                  <= NetProfitOf(entries[i], vehicleCostPerKm)
                       /\ \A j \in valid : j < i =>
                              NetProfitOf(entries[j], vehicleCostPerKm)
                                  < NetProfitOf(entries[i], vehicleCostPerKm)
        IN  /\ periodData.summaryStats.bestDay.date = entries[first].date
            /\ periodData.summaryStats.bestDay.profit
                  = ReportNetProfit(entries[first], vehicleCostPerKm)
            /\ CentavosOf(periodData.summaryStats.bestDay.profit)
                  = NetProfitOf(entries[first], vehicleCostPerKm)

\* two date-valid entries of different dates tie for the maximum, and the earlier one in
\* the array is the best day
C8_Witness ==
    /\ periodData.mounted
    /\ \E i, j \in ValidIndices(entries) :
          /\ i < j
          /\ entries[i].date # entries[j].date
          /\ NetProfitOf(entries[i], vehicleCostPerKm) = NetProfitOf(entries[j], vehicleCostPerKm)
          /\ \A k \in ValidIndices(entries) :
                NetProfitOf(entries[k], vehicleCostPerKm) <= NetProfitOf(entries[i], vehicleCostPerKm)
          /\ periodData.summaryStats.bestDay.date = entries[i].date

\* the number v is a / b
NumIs(v, a, b) == v.kind = "number" /\ v.num * b = a * v.den

\* the calendar day number of a date string
DayNumberOf(dateString) == DaysFromCivil(dateString[1], dateString[2], dateString[3])

\* the month window that holds the calendar date of a date-valid entry
MonthWindowOf(e) == getMonthRange(OptimizerEntryDate(e))

\* C1: every place that derives net profit (calculator result, history summary and chart,
\* general-report fold, day-of-week fold, performance-period fold) yields
\* totalEarnings - kmDriven * vehicleCostPerKm - additionalCosts, and carCost is
\* kmDriven * vehicleCostPerKm
C1_NetProfitAgrees ==
    /\ results # null =>
          /\ results.carCost = ParseFloatOrZero(kms) * vehicleCostPerKm
          /\ results.netProfit = ParseFloatOrZero(earnings)
                                    - ParseFloatOrZero(kms) * vehicleCostPerKm
                                    - ParseFloatOrZero(costs)
    /\ viewingEntry # null =>
          /\ SummaryModal(viewingEntry, vehicleCostPerKm).carCost
                = viewingEntry.kmDriven * vehicleCostPerKm
          /\ SummaryModal(viewingEntry, vehicleCostPerKm).netProfit
                = NetProfitOf(viewingEntry, vehicleCostPerKm)
    /\ \A i \in 1..Len(entries) :
          /\ SummaryModal(entries[i], vehicleCostPerKm).netProfit
                = NetProfitOf(entries[i], vehicleCostPerKm)
          /\ CalculatorResults(entries[i].totalEarnings, entries[i].kmDriven,
                               entries[i].hoursWorked, entries[i].additionalCosts,
                               vehicleCostPerKm).netProfit
                = NetProfitOf(entries[i], vehicleCostPerKm)
          /\ HistoryChartRow(entries[i], vehicleCostPerKm).Lucro
                = NetProfitOf(entries[i], vehicleCostPerKm)
          /\ HistoryChartRow(entries[i], vehicleCostPerKm).CustoDoCarro
                = entries[i].kmDriven * vehicleCostPerKm
          /\ CentavosOf(ReportNetProfit(entries[i], vehicleCostPerKm))
                = NetProfitOf(entries[i], vehicleCostPerKm)
          /\ DayOfWeekNetProfit(entries[i], vehicleCostPerKm)
                = NetProfitOf(entries[i], vehicleCostPerKm)
          /\ OptimizerNetProfit(entries[i], vehicleCostPerKm)
                = NetProfitOf(entries[i], vehicleCostPerKm)
          /\ HasValidDate(entries[i]) =>
                /\ ComputePeriodData(<<entries[i]>>, vehicleCostPerKm, "month")
                      .summaryStats.totalProfit = ReportNetProfit(entries[i], vehicleCostPerKm)
                /\ OptimizerInWindow(<<entries[i]>>, vehicleCostPerKm, MonthWindowOf(entries[i]))
                      .stats.totalProfit = NetProfitOf(entries[i], vehicleCostPerKm)
                /\ OptimizerInWindow(<<entries[i]>>, vehicleCostPerKm, MonthWindowOf(entries[i]))
                      .dailyData[OptimizerDateKey(entries[i])].totalProfit
                      = NetProfitOf(entries[i], vehicleCostPerKm)

\* the summary of a stored entry with additional costs is open and shows its net profit
C1_Witness ==
    /\ currentView = "history"
    /\ viewingEntry # null
    /\ viewingEntry.additionalCosts > 0
    /\ viewingEntry.kmDriven > 0
    /\ SummaryModal(viewingEntry, vehicleCostPerKm).netProfit
          = viewingEntry.totalEarnings - viewingEntry.kmDriven * vehicleCostPerKm
              - viewingEntry.additionalCosts

\* C6: for an entry with kmDriven = 0 the entry-level profitPerKm is the unavailable
\* marker, in the calculator result and in the history summary, never a number
C6_ProfitPerKmUnavailableAtZeroKm ==
    /\ (results # null /\ ParseFloatOrZero(kms) = 0) => results.profitPerKm = null
    /\ (viewingEntry # null /\ viewingEntry.kmDriven = 0) =>
          SummaryModal(viewingEntry, vehicleCostPerKm).profitPerKm = null

\* C7: with hoursWorked = 0 the entry-level profitPerHour is null, in the calculator result
\* and in the history summary, and with hoursWorked > 0 it is netProfit / hoursWorked
C7_ProfitPerHourNullWithoutHours ==
    /\ results # null =>
          /\ ParseFloatOrZero(hours) = 0 => results.profitPerHour = null
          /\ ParseFloatOrZero(hours) > 0 =>
                NumIs(results.profitPerHour,
                      ParseFloatOrZero(earnings) - ParseFloatOrZero(kms) * vehicleCostPerKm
                        - ParseFloatOrZero(costs),
                      ParseFloatOrZero(hours))
    /\ viewingEntry # null =>
          /\ viewingEntry.hoursWorked = 0 =>
                SummaryModal(viewingEntry, vehicleCostPerKm).profitPerHour = null
          /\ viewingEntry.hoursWorked > 0 =>
                NumIs(SummaryModal(viewingEntry, vehicleCostPerKm).profitPerHour,
                      NetProfitOf(viewingEntry, vehicleCostPerKm), viewingEntry.hoursWorked)

\* the summary of a stored entry without hours is open and its profitPerHour is null
C7_Witness ==
    /\ currentView = "history"
    /\ viewingEntry # null
    /\ viewingEntry.hoursWorked = 0
    /\ SummaryModal(viewingEntry, vehicleCostPerKm).profitPerHour = null

RECURSIVE SumCounts(_, _)
\* the sum of the entry counts of the buckets 0..i
SumCounts(days, i) ==
    IF i < 0 THEN 0 ELSE days[i].count + SumCounts(days, i - 1)

\* C9: the day-of-week breakdown has exactly the 7 buckets 0 (Sunday) .. 6 (Saturday), and
\* the counts of the buckets sum to the number of filtered entries that have a parseable
\* date and hoursWorked > 0
C9_SevenBucketsCountQualifying ==
    dayOfWeekData.mounted =>
        /\ DOMAIN dayOfWeekData.days = 0..6
        /\ DOMAIN dayOfWeekData.chartData = 0..6
        /\ dayOfWeekData.chartData[0].name = "Dom"
        /\ dayOfWeekData.chartData[6].name = "Sab"
        /\ SumCounts(dayOfWeekData.days, 6)
              = Cardinality({j \in 1..Len(dayOfWeekData.filteredEntries) :
                               /\ HasValidDate(dayOfWeekData.filteredEntries[j])
                               /\ dayOfWeekData.filteredEntries[j].hoursWorked > 0})

\* the 30-day range drops one of three entries, and of the two left one has no hours:
\* the buckets count one entry
C9_Witness ==
    /\ dayOfWeekData.mounted
    /\ range = "30d"
    /\ Len(entries) = 3
    /\ Len(dayOfWeekData.filteredEntries) = 2
    /\ \E j \in 1..2 : dayOfWeekData.filteredEntries[j].hoursWorked = 0
    /\ SumCounts(dayOfWeekData.days, 6) = 1

\* the entry is among the filteredEntries of the performance view
SelectedByOptimizer(e) ==
    \E j \in 1..Len(optimizerData.filteredEntries) : optimizerData.filteredEntries[j].id = e.id

\* C10: for every timezone offset and every week or month window, an entry is selected
\* if and only if its calendar date is one of the window's calendar days, first and last
\* included; the window runs from 00:00:00 of its first day to the end of its last day
C10_WindowSelectsByCalendarDate ==
    optimizerData.mounted =>
        /\ TimeOfDay(optimizerData.start) = StartOfDay
        /\ TimeOfDay(optimizerData.end) = EndOfDay
        /\ periodType = "week" =>
              /\ Weekday(LocalDayNumber(optimizerData.start)) = 1
              /\ LocalDayNumber(optimizerData.end) = LocalDayNumber(optimizerData.start) + 6
        /\ periodType = "month" =>
              /\ CivilFromDays(LocalDayNumber(optimizerData.start))[3] = 1
              /\ CivilFromDays(LocalDayNumber(optimizerData.end) + 1)[3] = 1
              /\ LocalDayNumber(optimizerData.end) - LocalDayNumber(optimizerData.start) < 31
        /\ \A i \in 1..Len(entries) :
              SelectedByOptimizer(entries[i])
                <=> /\ HasValidDate(entries[i])
                    /\ LocalDayNumber(optimizerData.start) <= DayNumberOf(entries[i].date)
                    /\ DayNumberOf(entries[i].date) <= LocalDayNumber(optimizerData.end)

\* west of UTC, after a step to another month, an entry dated on the first day of the
\* displayed month is selected
C10_Witness ==
    /\ optimizerData.mounted
    /\ tz < 0
    /\ periodType = "month"
    /\ currentDate # now
    /\ Len(optimizerData.filteredEntries) = 1
    /\ DayNumberOf(entries[1].date) = LocalDayNumber(optimizerData.start)

\* months since year 0 of the month that holds the local calendar day of a Date
MonthIndexOf(t) ==
    CivilFromDays(LocalDayNumber(t))[1] * 12 + CivilFromDays(LocalDayNumber(t))[2] - 1

\* +1 for 'next', -1 for 'prev'
StepOf(direction) == IF direction = "next" THEN 1 ELSE 0 - 1

\* the displayed window after the step is the one adjacent, in the direction, to the
\* window displayed before it
MovedToAdjacentWindow(direction) ==
    IF periodType = "week"
    THEN /\ currentDate' = currentDate + StepOf(direction) * 7 * SecPerDay
         /\ optimizerData'.start = optimizerData.start + StepOf(direction) * 7 * SecPerDay
         /\ optimizerData'.end = optimizerData.end + StepOf(direction) * 7 * SecPerDay
    ELSE /\ MonthIndexOf(optimizerData'.start) = MonthIndexOf(optimizerData.start) + StepOf(direction)
         /\ MonthIndexOf(optimizerData'.end) = MonthIndexOf(optimizerData.end) + StepOf(direction)

\* C11: each prev/next step of the performance view moves the displayed window to exactly
\* the adjacent one: by 7 days in week mode, and in month mode from any anchor of month M
\* to month M+1 (next) or M-1 (prev), no month being skipped
C11_StepMovesToAdjacentWindow ==
    [][\A direction \in Directions :
          handleDateChange(direction) => MovedToAdjacentWindow(direction)]_vars

\* the Date of 00:00:00 local time on the local calendar day of t, minus n days
StartOfDayMinus(t, n) == t - TimeOfDay(t) - n * SecPerDay

\* the entries of es dated on or after start-of-day(t) minus n days
LastNDays(es, n, t) ==
    SelectSeq(es, LAMBDA e :
        HasValidDate(e) /\ NewDateFromString(e.date) >= StartOfDayMinus(t, n))

DaysOfRange(r) == IF r = "30d" THEN 30 ELSE 90

\* C12: every fixed last-N-days filter (the recent history, the 30/90-day day-of-week
\* analysis, the 30/90-day AI insights) selects exactly the entries dated on or after
\* start-of-day(now) minus N days, whatever the time of day
C12_LastNDaysFromStartOfDay ==
    /\ \A i \in 1..Len(entries) :
          (\E j \in 1..Len(entriesToDisplay(entries, now)) :
                entriesToDisplay(entries, now)[j] = entries[i])
              <=> (\E j \in 1..Len(LastNDays(entries, 14, now)) :
                        LastNDays(entries, 14, now)[j] = entries[i])
    /\ \A r \in {"30d", "90d"} :
          DayOfWeekFilteredEntries(entries, r, now) = LastNDays(entries, DaysOfRange(r), now)
    /\ (premiumView.request # null /\ premiumView.request.currentSnapshot[2] # "all")
          => premiumView.request.currentSnapshot[1]
                = LastNDays(entries, DaysOfRange(premiumView.request.currentSnapshot[2]), now)

\* C13: for every anchor d (any weekday, Sunday included, any time of day) the week range
\* starts at 00:00:00 of the Monday on or before d and ends at the end of the Sunday six
\* days later, start <= d <= end, and d keeps its value: in week mode the anchor stays a
\* whole number of weeks away from the clock reading it was taken from
C13_WeekRangeMondayToSunday ==
    (optimizerData.mounted /\ periodType = "week") =>
        /\ TimeOfDay(optimizerData.start) = StartOfDay
        /\ Weekday(LocalDayNumber(optimizerData.start)) = 1
        /\ LocalDayNumber(currentDate) - LocalDayNumber(optimizerData.start) \in 0..6
        /\ TimeOfDay(optimizerData.end) = EndOfDay
        /\ Weekday(LocalDayNumber(optimizerData.end)) = 0
        /\ LocalDayNumber(optimizerData.end) = LocalDayNumber(optimizerData.start) + 6
        /\ optimizerData.start <= currentDate
        /\ currentDate <= optimizerData.end
        /\ (currentDate - now) % (7 * SecPerDay) = 0

\* a step of a week has been taken, the anchor is a Sunday evening and its range is the
\* week that ends on that Sunday
C13_Witness ==
    /\ optimizerData.mounted
    /\ periodType = "week"
    /\ currentDate # now
    /\ getDay(currentDate) = 0
    /\ TimeOfDay(currentDate) > 12 * 3600
    /\ LocalDayNumber(optimizerData.end) = LocalDayNumber(currentDate)

\* C14: an aggregation over zero entries (an empty store, an empty window) has total 0,
\* average 0, count 0, no bucket and no best day: null, never -Infinity and never a
\* placeholder profit
C14_EmptyAggregationIsZero ==
    /\ (periodData.mounted /\ Len(entries) = 0) =>
          /\ periodData.summaryStats.totalProfit = FloatZero
          /\ periodData.summaryStats.avgProfitPerDay = FloatZero
          /\ periodData.summaryStats.daysWorked = 0
          /\ periodData.chartData = <<>>
          /\ periodData.summaryStats.bestDay = null
    /\ (optimizerData.mounted /\ Len(optimizerData.filteredEntries) = 0) =>
          /\ optimizerData.stats.totalProfit = 0
          /\ NumIs(optimizerData.stats.avgProfitPerDay, 0, 1)
          /\ NumIs(optimizerData.stats.profitPerHour, 0, 1)
          /\ optimizerData.stats.daysWorked = 0
          /\ optimizerData.stats.totalKm = 0
          /\ optimizerData.dailyData = <<>>

\* C15: the day-of-week breakdown never divides by zero: a bucket that counts an entry
\* has totalHours > 0 and its rates are the quotients, and a bucket without a qualifying
\* entry reports 0 for profitPerHour, earningsPerHour and avgKm
C15_DayOfWeekRatesDefined ==
    dayOfWeekData.mounted =>
        \A i \in 0..6 :
            /\ dayOfWeekData.days[i].count > 0 =>
                  /\ dayOfWeekData.days[i].totalHours > 0
                  /\ NumIs(dayOfWeekData.chartData[i].profitPerHour,
                           dayOfWeekData.days[i].totalProfit, dayOfWeekData.days[i].totalHours)
                  /\ NumIs(dayOfWeekData.chartData[i].earningsPerHour,
                           dayOfWeekData.days[i].totalEarnings, dayOfWeekData.days[i].totalHours)
                  /\ NumIs(dayOfWeekData.chartData[i].avgKm,
                           dayOfWeekData.days[i].totalKm, dayOfWeekData.days[i].count)
            /\ dayOfWeekData.days[i].count = 0 =>
                  /\ NumIs(dayOfWeekData.chartData[i].profitPerHour, 0, 1)
                  /\ NumIs(dayOfWeekData.chartData[i].earningsPerHour, 0, 1)
                  /\ NumIs(dayOfWeekData.chartData[i].avgKm, 0, 1)

\* the 90-day range is displayed; the only entry of one weekday has no hours, so its
\* bucket is empty, while another bucket counts an entry
C15_Witness ==
    /\ dayOfWeekData.mounted
    /\ range = "90d"
    /\ \E j \in 1..Len(dayOfWeekData.filteredEntries) :
          /\ HasValidDate(dayOfWeekData.filteredEntries[j])
          /\ dayOfWeekData.filteredEntries[j].hoursWorked = 0
          /\ dayOfWeekData.days[getDay(NewDateFromString(dayOfWeekData.filteredEntries[j].date))].count = 0
    /\ \E i \in 0..6 : dayOfWeekData.days[i].count > 0

\* the number of entries of es whose date parses
CountValid(es) == Cardinality(ValidIndices(es))

\* C16: every reported period average (general report, performance period) is the total
\* profit divided by the number of entries that contributed to the total, 0 when there is
\* none; entries that share a date are counted one by one
C16_AverageIsPerContributingEntry ==
    /\ periodData.mounted =>
          IF CountValid(entries) > 0
          THEN periodData.summaryStats.avgProfitPerDay
                  = FloatDiv(periodData.summaryStats.totalProfit, FloatOfInt(CountValid(entries)))
          ELSE periodData.summaryStats.avgProfitPerDay = FloatZero
    /\ optimizerData.mounted =>
          IF Len(optimizerData.filteredEntries) > 0
          THEN NumIs(optimizerData.stats.avgProfitPerDay,
                     optimizerData.stats.totalProfit, Len(optimizerData.filteredEntries))
          ELSE NumIs(optimizerData.stats.avgProfitPerDay, 0, 1)

\* a field value as the claim has it taken: a negative value counts as 0
ZeroIfNegative(x) == IF x < 0 THEN 0 ELSE x

\* C17: no negative field value contributes to a net profit: a missing, non-numeric or
\* negative totalEarnings, kmDriven, hoursWorked or additionalCosts is taken as 0 where the
\* metrics are computed, in the calculator and for a stored entry
C17_NegativeFieldsCountAsZero ==
    /\ results # null =>
          results.netProfit
            = ZeroIfNegative(ParseFloatOrZero(earnings))
                - ZeroIfNegative(ParseFloatOrZero(kms)) * vehicleCostPerKm
                - ZeroIfNegative(ParseFloatOrZero(costs))
    /\ viewingEntry # null =>
          SummaryModal(viewingEntry, vehicleCostPerKm).netProfit
            = ZeroIfNegative(viewingEntry.totalEarnings)
                - ZeroIfNegative(viewingEntry.kmDriven) * vehicleCostPerKm
                - ZeroIfNegative(viewingEntry.additionalCosts)

\* every entry of before is an entry of after
AllKept(before, after) ==
    \A i \in 1..Len(before) : \E j \in 1..Len(after) : after[j] = before[i]

\* C18: in every state reached by addEntry, updateEntry and deleteEntry no two entries
\* share an id, two addEntry calls at the same clock reading included, and no operation
\* changes the id of an entry the store already holds
C18_IdsAreUnique ==
    /\ \A i, j \in 1..Len(entries) : i # j => entries[i].id # entries[j].id
    /\ lastCall.op = "addEntry" => AllKept(prevEntries, entries)
    /\ lastCall.op = "updateEntry" =>
          /\ Len(entries) = Len(prevEntries)
          /\ \A i \in 1..Len(entries) : entries[i].id = prevEntries[i].id
    /\ lastCall.op = "deleteEntry" => AllKept(entries, prevEntries)

\* the indices of es whose entry has another id than id
OtherIds(es, id) == {i \in 1..Len(es) : es[i].id # id}

\* the index in es of the n-th entry that has another id than id
NthOther(es, id, n) ==
    CHOOSE i \in OtherIds(es, id) : Cardinality({k \in OtherIds(es, id) : k <= i}) = n

\* C19: updateEntry(e) and deleteEntry(id) touch only the entries of the targeted id: every
\* other entry stays, unchanged and in the same relative order; updateEntry keeps the
\* number of entries, deleteEntry removes exactly the entries of the id, and both leave
\* vehicleCostPerKm as it was; with an id no entry has, both leave the entries as they are
C19_OnlyTargetedIdTouched ==
    /\ lastCall.op = "updateEntry" =>
          /\ Len(entries) = Len(prevEntries)
          /\ \A i \in 1..Len(prevEntries) :
                entries[i] = IF prevEntries[i].id = lastCall.arg.id
                             THEN lastCall.arg
                             ELSE prevEntries[i]
          /\ vehicleCostPerKm = lastCall.cost
    /\ lastCall.op = "deleteEntry" =>
          /\ Len(entries) = Cardinality(OtherIds(prevEntries, lastCall.arg))
          /\ \A n \in 1..Len(entries) :
                entries[n] = prevEntries[NthOther(prevEntries, lastCall.arg, n)]
          /\ vehicleCostPerKm = lastCall.cost
    /\ EntriesAfterUpdate(entries, UpdatedEntry(AbsentId, <<2024, 1, 10>>)) = entries
    /\ EntriesAfterDelete(entries, AbsentId) = entries

\* the store held three entries of at least two ids; the entry of one id was updated and
\* now differs, an entry of another id is as it was
C19_Witness ==
    /\ lastCall.op = "updateEntry"
    /\ Len(prevEntries) = 3
    /\ \E i, j \in 1..Len(prevEntries) :
          /\ prevEntries[i].id = lastCall.arg.id
          /\ entries[i] # prevEntries[i]
          /\ prevEntries[j].id # lastCall.arg.id
          /\ entries[j] = prevEntries[j]

\* es without its j-th entry
Without(es, j) == SubSeq(es, 1, j - 1) \o SubSeq(es, j + 1, Len(es))

\* C20: the entry stored when the user saves a calculation carries the date selected in
\* the calculator form, with the form's four numbers, and not the date of its creation
C20_SavedEntryKeepsFormDate ==
    lastCall.op = "addEntry" =>
        \E j \in 1..Len(entries) :
            /\ Without(entries, j) = prevEntries
            /\ entries[j].date = lastCall.arg.date
            /\ entries[j].totalEarnings = lastCall.arg.totalEarnings
            /\ entries[j].kmDriven = lastCall.arg.kmDriven
            /\ entries[j].hoursWorked = lastCall.arg.hoursWorked
            /\ entries[j].additionalCosts = lastCall.arg.additionalCosts

\* C21: restoring, with confirmation, the backup that was exported in a
\* state S leaves the store with the entries and the vehicleCostPerKm of S,
\* whatever was added, edited, deleted or configured since the export
C21_RestoreReturnsToExportedState ==
    [][\A i \in 1..MaxReads :
          (/\ backup.exported
           /\ i <= Len(importAttempt.reading)
           /\ importAttempt.reading[i] = backup.file
           /\ readerOnload(i, TRUE))
          => (/\ entries' = backup.entries
              /\ vehicleCostPerKm' = backup.vehicleCostPerKm)]_vars

\* C28: a restore leaves entries and vehicleCostPerKm as they were when the
\* file is not valid JSON, has no numeric vehicleCostPerKm or no entries
\* array, or when the user declines; an accepted restore replaces both the
\* entries and the vehicleCostPerKm by the file's
C28_RestoreIsAllOrNothing ==
    [][\A i \in 1..MaxReads, confirmed \in BOOLEAN :
          (i <= Len(importAttempt.reading) /\ readerOnload(i, confirmed)) =>
              IF importAttempt.reading[i] \in RejectedFiles \/ ~confirmed
              THEN UNCHANGED <<entries, vehicleCostPerKm>>
              ELSE /\ entries' = ParsedBackup(importAttempt.reading[i]).entries
                   /\ vehicleCostPerKm'
                        = ParsedBackup(importAttempt.reading[i]).vehicleCostPerKm]_vars

\* a rejected file or a declined confirmation leaves the store as it was
RestoreRejectedLeavesStore ==
    [][\A i \in 1..MaxReads, confirmed \in BOOLEAN :
          (/\ i <= Len(importAttempt.reading)
           /\ readerOnload(i, confirmed)
           /\ (importAttempt.reading[i] \in RejectedFiles \/ ~confirmed))
          => UNCHANGED <<entries, vehicleCostPerKm>>]_vars

\* C22: after any sequence of addEntry, updateEntry, deleteEntry and
\* setVehicleCostPerKm, the general report on screen holds the value computed
\* from the current entries, the current vehicleCostPerKm and the current
\* period, never a memoized value of an earlier snapshot or cost
C22_ReportIsNeverStale ==
    periodData.mounted =>
        periodData = ComputePeriodData(entries, vehicleCostPerKm, period)

\* entries were added and the cost was changed, and the report opened since and
\* switched to weeks shows the weeks of the entries stored at the cost saved,
\* which is not what the cost of the first launch gives
C22_Witness ==
    /\ periodData.mounted
    /\ period = "week"
    /\ Len(entries) >= 3
    /\ lastCall.op = "setVehicleCostPerKm"
    /\ vehicleCostPerKm # DefaultCost
    /\ periodData = ComputePeriodData(entries, vehicleCostPerKm, period)
    /\ periodData # ComputePeriodData(entries, DefaultCost, period)

\* C23 (as stated): for every permutation of the entries, the grouping of the
\* general report gives the same bucket keys, the same totalProfit in each
\* bucket and the same overall total
C23_PermutationGivesSameTotals ==
    regrouped.state = "grouped" =>
        /\ DOMAIN regrouped.permuted.aggregator.get = DOMAIN regrouped.original.aggregator.get
        /\ \A k \in DOMAIN regrouped.original.aggregator.get :
               regrouped.permuted.aggregator.get[k].totalProfit
                  = regrouped.original.aggregator.get[k].totalProfit
        /\ regrouped.permuted.summaryStats.totalProfit
              = regrouped.original.summaryStats.totalProfit

\* C23 (amended): for every permutation of the entries, the grouping gives the
\* same bucket keys, and the totalProfit of each bucket and the overall total
\* agree up to the rounding of the additions: the two totals of a bucket of m
\* entries differ by at most m * 2^-52 times the sum of the absolute net
\* profits of its entries, and the two overall totals by at most n * 2^-52
\* times the sum of the absolute net profits of the n date-valid entries
C23_PermutationGivesCloseTotals ==
    regrouped.state = "grouped" =>
        /\ DOMAIN regrouped.permuted.aggregator.get = DOMAIN regrouped.original.aggregator.get
        /\ \A k \in DOMAIN regrouped.original.aggregator.get :
               SameUpToRounding(regrouped.permuted.aggregator.get[k].totalProfit,
                                regrouped.original.aggregator.get[k].totalProfit,
                                BucketNetProfits(entries, vehicleCostPerKm, regrouped.period, k))
        /\ SameUpToRounding(regrouped.permuted.summaryStats.totalProfit,
                            regrouped.original.summaryStats.totalProfit,
                            ValidNetProfits(entries, vehicleCostPerKm))

\* three entries of one month are grouped in another order than stored, and
\* the totals of the month in the two orders are 2^-40 or more apart
C23_Witness ==
    /\ regrouped.state = "grouped"
    /\ regrouped.period = "month"
    /\ Len(entries) = 3
    /\ regrouped.arranged # entries
    /\ DOMAIN regrouped.original.aggregator.get = DOMAIN regrouped.permuted.aggregator.get
    /\ \E k \in DOMAIN regrouped.original.aggregator.get :
          ~FloatWithin(regrouped.permuted.aggregator.get[k].totalProfit,
                       regrouped.original.aggregator.get[k].totalProfit, 40)

\* a <= b in code-unit order
StringAtMost(a, b) == a = b \/ StringLess(a, b)

\* the earlier of two dates is compared with dates up to this many days later
MaxDaysApart == 40

\* C24: of two dates the earlier has a week key, a month key and a year key
\* that are each at most those of the later in string order (checked for
\* dates up to MaxDaysApart days apart; the order of strings being
\* transitive, it follows for any two dates)
C24_KeysSortChronologically ==
    keys.state = "assigned" =>
        \A gap \in 0..MaxDaysApart :
            LET earlier == BucketKeys(CivilFromDays(DayNumberOf(probe) - gap))
            IN  /\ StringAtMost(earlier.week, keys.week)
                /\ StringAtMost(earlier.month, keys.month)
                /\ StringAtMost(earlier.year, keys.year)

\* the keys of a date in the first days of January whose week belongs to the
\* year before, in week 52 or 53 of it
C24_Witness ==
    /\ keys.state = "assigned"
    /\ probe[2] = 1
    /\ SubSeq(keys.week, 1, 4) # keys.year
    /\ SubSeq(keys.week, 1, 4) = SubSeq(BucketKeys(CivilFromDays(DayNumberOf(probe) - 7)).week, 1, 4)

\* the two entries of the worked example
ExampleEntry1 == Entry(1, <<2024, 1, 1>>, 30000, 200, 8, 2000)
ExampleEntry2 == Entry(2, <<2024, 1, 8>>, 10000, 50, 0, 0)

\* C25: for the entries {2024-01-01, 300, 200 km, 8 h, 20} and {2024-01-08,
\* 100, 50 km, 0 h, 0} at a cost of 0.75 per km the summary of entry 1 shows
\* carCost 150, netProfit 130, profitPerKm 0.65 and profitPerHour 16.25, that
\* of entry 2 carCost 37.5, netProfit 62.5, profitPerKm 1.25 and no
\* profitPerHour, and the monthly grouping of the general report has the
\* single bucket 2024-01 with totalProfit 192.5 over the 2 entries
C25_WorkedExample ==
    (/\ periodData.mounted
     /\ period = "month"
     /\ entries = <<ExampleEntry1, ExampleEntry2>>
     /\ vehicleCostPerKm = DefaultCost)
    => /\ SummaryModal(entries[1], vehicleCostPerKm).carCost = 15000
       /\ SummaryModal(entries[1], vehicleCostPerKm).netProfit = 13000
       /\ NumIs(SummaryModal(entries[1], vehicleCostPerKm).profitPerKm, 65, 1)
       /\ NumIs(SummaryModal(entries[1], vehicleCostPerKm).profitPerHour, 1625, 1)
       /\ SummaryModal(entries[2], vehicleCostPerKm).carCost = 3750
       /\ SummaryModal(entries[2], vehicleCostPerKm).netProfit = 6250
       /\ NumIs(SummaryModal(entries[2], vehicleCostPerKm).profitPerKm, 125, 1)
       /\ SummaryModal(entries[2], vehicleCostPerKm).profitPerHour = null
       /\ DOMAIN periodData.aggregator.get = {<<"2", "0", "2", "4", "-", "0", "1">>}
       /\ \A k \in DOMAIN periodData.aggregator.get :
              /\ periodData.aggregator.get[k].totalProfit = FloatOfHundredths(19250)
              /\ Cardinality(periodData.aggregator.get[k].days) = 2

\* C26: the AI insights shown in the performance view are an analysis of the period
\* that is displayed, also when the period was changed while the request was awaited
C26_InsightsBelongToDisplayedPeriod ==
    OptimizerInsightsShown =>
        optimizerInsights.aiInsights
            = <<"analysis", PromptPeriod(optimizerData, periodType)>>

\* exactly one of the two strings is not empty
ExactlyOneSet(a, b) == (a # EmptyString) # (b # EmptyString)

\* in a period of too few entries (under 3 for the quick insights, under 2 for the
\* performance view) the handler sets the error, leaves isLoading as it is and
\* issues no request
TooFewEntriesOnlySetError ==
    /\ Len(getFilteredEntries(entries, premiumView.aiDateRange, now)) < 3 =>
            \A confirmed \in BOOLEAN :
                LET after == PremiumAfterGenerate(premiumView, entries, vehicleCostPerKm, now,
                                                  confirmed)
                IN  /\ after.error = TooFewEntriesError(premiumView.aiDateRange)
                    /\ after.isLoading = premiumView.isLoading
                    /\ after.request = premiumView.request
    /\ (optimizerData.mounted /\ Len(optimizerData.filteredEntries) < 2) =>
            LET after == OptimizerAfterGenerate(optimizerInsights, optimizerData, periodType,
                                                vehicleCostPerKm)
            IN  /\ after.error = OptimizerTooFewEntriesError
                /\ after.isLoading = optimizerInsights.isLoading
                /\ after.request = optimizerInsights.request

\* while isLoading holds the awaited request is never replaced by another
NoSecondRequest ==
    /\ premiumView.isLoading => premiumView'.request \in {premiumView.request, null}
    /\ optimizerInsights.isLoading =>
            optimizerInsights'.request \in {optimizerInsights.request, null}

\* C27, as claimed, in what a finite run decides of it: at the step that ends a
\* generation (isLoading true before it, false after it) exactly one of the insights
\* and the error is not empty; in a period of too few entries the handler sets the
\* error, leaves isLoading as it is and issues no request; and while isLoading holds
\* the awaited request is never replaced by another
C27_GenerationsEndWithOneOutcome ==
    /\ [][(premiumView.isLoading /\ ~premiumView'.isLoading) =>
            ExactlyOneSet(premiumView'.insights, premiumView'.error)]_vars
    /\ [][(optimizerInsights.isLoading /\ ~optimizerInsights'.isLoading) =>
            ExactlyOneSet(optimizerInsights'.aiInsights, optimizerInsights'.error)]_vars
    /\ []TooFewEntriesOnlySetError
    /\ [][NoSecondRequest]_vars

\* the step that ends a generation of the quick insights: the view was left and
\* its state dropped, or the request was rejected and only the error is set, or it
\* was fulfilled and the insights are the text of the response, which may be none
PremiumGenerationEnds ==
    (premiumView.isLoading /\ ~premiumView'.isLoading) =>
        \/ premiumView' = PremiumInitial
        \/ /\ premiumView'.error = ConnectionError
           /\ premiumView'.insights = EmptyString
        \/ /\ premiumView'.error = EmptyString
           /\ premiumView'.insights \in ResponseTexts
           /\ premiumView'.lastAnalysisDataSnapshot = premiumView.request.currentSnapshot

\* the step that ends a generation of the performance view, likewise
OptimizerGenerationEnds ==
    (optimizerInsights.isLoading /\ ~optimizerInsights'.isLoading) =>
        \/ optimizerInsights' = OptimizerInsightsInitial
        \/ /\ optimizerInsights'.error = OptimizerConnectionError
           /\ optimizerInsights'.aiInsights = EmptyString
        \/ /\ optimizerInsights'.error = EmptyString
           /\ optimizerInsights'.aiInsights \in OptimizerResponseTexts(optimizerInsights.request)

\* C27: from the start of a generation until it ends, the insights and the error are
\* both empty; it ends (isLoading false again) only when its request settles or its
\* view is unmounted, and at that step at most one of the two is not empty: the
\* error after a rejection, the text of the response after a fulfilment, neither when
\* the response has no text or the view was left; in a period of too few entries the
\* handler sets the error, leaves isLoading as it is and issues no request; and while
\* isLoading holds the awaited request is never replaced by another
C27_GenerationOutcomes ==
    /\ [](premiumView.isLoading =>
            premiumView.insights = EmptyString /\ premiumView.error = EmptyString)
    /\ [](optimizerInsights.isLoading =>
            optimizerInsights.aiInsights = EmptyString /\ optimizerInsights.error = EmptyString)
    /\ [][PremiumGenerationEnds]_vars
    /\ [][OptimizerGenerationEnds]_vars
    /\ []TooFewEntriesOnlySetError
    /\ [][NoSecondRequest]_vars

\* a request of the quick insights was fulfilled by a response without text: the
\* generation has ended with neither the insights nor the error set
C27_Witness ==
    /\ ~premiumView.isLoading
    /\ premiumView.lastAnalysisDataSnapshot # EmptyString
    /\ premiumView.insights = EmptyString
    /\ premiumView.error = EmptyString

\* the flights answered by staleWhileRevalidate
StaleFlights ==
    {i \in 1..Len(serviceWorker.flights) :
        serviceWorker.flights[i].strategy = "staleWhileRevalidate"}

\* once its cache is open staleWhileRevalidate has called fetch, and a cached
\* response is the answer
StaleAnswersFromCache ==
    \A i \in StaleFlights :
        LET f == serviceWorker.flights[i]
        IN  /\ f.cache = "open" => f.networkResponse # NotStarted
            /\ f.cachedResponse.kind = "response" => f.answer = f.cachedResponse

\* a response of the network is put in the cache of its flight exactly when it is
\* ok, the put leaves it in the cache, and the caches change in no other way
StaleRevalidates ==
    /\ \A i \in StaleFlights :
            LET f == serviceWorker.flights[i]
                g == serviceWorker'.flights[i]
            IN  /\ (f.networkResponse = Pending /\ g.networkResponse.kind = "response") =>
                        (g.put = "pending") = g.networkResponse.ok
                /\ (f.put = "pending" /\ g.put = "done") =>
                        CacheMatch(serviceWorker'.caches, f.cacheName, f.request)
                            = f.networkResponse
    /\ \A c \in ALL_CACHES, u \in Urls :
            serviceWorker'.caches[c][u] # serviceWorker.caches[c][u] =>
                /\ serviceWorker'.caches[c][u].ok
                /\ \E i \in 1..Len(serviceWorker.flights) :
                        /\ serviceWorker.flights[i].put = "pending"
                        /\ serviceWorker'.flights[i].put = "done"

\* with nothing cached the answer is the response of the network
StaleAnswersFromNetwork ==
    \A i \in StaleFlights :
        LET f == serviceWorker.flights[i]
        IN  (f.cachedResponse = Undefined /\ f.networkResponse # Pending) =>
                /\ f.answer = f.networkResponse
                /\ f.answer.kind = "response"

\* C29: staleWhileRevalidate answers with the cached response whenever there is one
\* and still fetches from the network; the fetched response replaces the cache entry
\* only if it is ok; with nothing cached the answer is the response of the network,
\* so that every answer given is a response
C29_StaleWhileRevalidateAnswers ==
    /\ [](serviceWorker.installed => StaleAnswersFromCache)
    /\ [][serviceWorker.installed => StaleRevalidates]_vars
    /\ [](serviceWorker.installed => StaleAnswersFromNetwork)
    /\ [](serviceWorker.installed =>
            \A i \in StaleFlights :
                serviceWorker.flights[i].answer # Pending =>
                    serviceWorker.flights[i].answer.kind = "response")

\* the cached answer and the revalidation alone
StaleCachedAnswerAndRevalidation ==
    /\ [](serviceWorker.installed => StaleAnswersFromCache)
    /\ [][serviceWorker.installed => StaleRevalidates]_vars

\* C30: the two week computations agree: a Date b lies in the Monday-to-Sunday
\* window getWeekRange(a) exactly when getWeekKey(b) = getWeekKey(a)
C30_WeekRangeAgreesWithWeekKey ==
    weeks.state = "compared" => weeks.inWindow = weeks.sameKey

\* the week of a Date of one year holds Dates of the next year
C30_Witness ==
    /\ weeks.state = "compared"
    /\ weeks.inWindow # {}
    /\ \E b \in weeks.inWindow : getFullYear(b) = getFullYear(weeks.a) + 1
    /\ \E b \in DatesAround(weeks.a) : b \notin weeks.inWindow

=============================================================================
